---------------------------- MODULE Spec2Model ----------------------------
(***************************************************************************)
(* Model of the wordlist generator: the pattern library (core/patterns.py), *)
(* the Bloom filter (core/optimizations.py), the two generation engines    *)
(* (core/generator.py) and the streaming file writer                       *)
(* (core/stream_writer.py).                                                *)
(*                                                                         *)
(* A Python str is modelled as a sequence of one-character strings, so     *)
(* that len, indexing, slicing, upper/lower and replace are computed.      *)
(***************************************************************************)
EXTENDS Integers, Sequences, FiniteSets, TLC

(***************************************************************************)
(* Characters                                                              *)
(***************************************************************************)

\* The letters the model's names are drawn from, lower case and upper case,
\* position by position.
LowerLetters == <<"a", "c", "d", "e", "h", "i", "j", "l", "m", "n", "o", "s", "t">>
UpperLetters == <<"A", "C", "D", "E", "H", "I", "J", "L", "M", "N", "O", "S", "T">>

Digits == <<"0", "1", "2", "3", "4", "5", "6", "7", "8", "9">>

\* ASCII codes of the characters that occur (str.encode() of the hashed text).
Ascii ==
  [c \in {" ", "!", "#", "$", "%", "&", "*", "-", ".", "@", "_",
          "0", "1", "2", "3", "4", "5", "6", "7", "8", "9",
          "a", "c", "d", "e", "h", "i", "j", "l", "m", "n", "o", "s", "t",
          "A", "C", "D", "E", "H", "I", "J", "L", "M", "N", "O", "S", "T"} |->
     CASE c = " " -> 32 [] c = "!" -> 33 [] c = "#" -> 35 [] c = "$" -> 36
       [] c = "%" -> 37 [] c = "&" -> 38 [] c = "*" -> 42 [] c = "-" -> 45
       [] c = "." -> 46 [] c = "@" -> 64 [] c = "_" -> 95
       [] c = "0" -> 48 [] c = "1" -> 49 [] c = "2" -> 50 [] c = "3" -> 51
       [] c = "4" -> 52 [] c = "5" -> 53 [] c = "6" -> 54 [] c = "7" -> 55
       [] c = "8" -> 56 [] c = "9" -> 57
       [] c = "a" -> 97 [] c = "d" -> 100 [] c = "e" -> 101 [] c = "i" -> 105
       [] c = "m" -> 109 [] c = "n" -> 110 [] c = "o" -> 111 [] c = "s" -> 115
       [] c = "t" -> 116
       [] c = "c" -> 99 [] c = "h" -> 104 [] c = "j" -> 106 [] c = "l" -> 108
       [] c = "C" -> 67 [] c = "H" -> 72 [] c = "J" -> 74 [] c = "L" -> 76
       [] c = "A" -> 65 [] c = "D" -> 68 [] c = "E" -> 69 [] c = "I" -> 73
       [] c = "M" -> 77 [] c = "N" -> 78 [] c = "O" -> 79 [] c = "S" -> 83
       [] c = "T" -> 84]

IndexIn(seq, c) == CHOOSE i \in 1..Len(seq) : seq[i] = c

IsIn(seq, c) == \E i \in 1..Len(seq) : seq[i] = c

\* str.upper() / str.lower() on one character: only letters change.
UpperChar(c) == IF IsIn(LowerLetters, c) THEN UpperLetters[IndexIn(LowerLetters, c)] ELSE c

LowerChar(c) == IF IsIn(UpperLetters, c) THEN LowerLetters[IndexIn(UpperLetters, c)] ELSE c

(***************************************************************************)
(* str methods                                                             *)
(***************************************************************************)

StrUpper(w) == [i \in 1..Len(w) |-> UpperChar(w[i])]

StrLower(w) == [i \in 1..Len(w) |-> LowerChar(w[i])]

\* str.capitalize(): first character upper-cased, the rest lower-cased.
\* word[0].upper() + word[1:].lower() computes the same string.
StrCapitalize(w) == [i \in 1..Len(w) |-> IF i = 1 THEN UpperChar(w[i]) ELSE LowerChar(w[i])]

\* str.replace(old, new) for a one-character old and new.
StrReplace(w, old, new) == [i \in 1..Len(w) |-> IF w[i] = old THEN new ELSE w[i]]

\* `c in word`
Contains(w, c) == \E i \in 1..Len(w) : w[i] = c

\* str.strip(): leading and trailing blanks removed.
RECURSIVE LStrip(_)
LStrip(w) == IF w # <<>> /\ Head(w) = " " THEN LStrip(Tail(w)) ELSE w

RECURSIVE RStrip(_)
RStrip(w) ==
  IF w # <<>> /\ w[Len(w)] = " " THEN RStrip(SubSeq(w, 1, Len(w) - 1)) ELSE w

StrStrip(w) == RStrip(LStrip(w))

\* The elements of a sequence, as a set.
Range(seq) == {seq[i] : i \in 1..Len(seq)}

\* Concatenation of a sequence of sequences.
RECURSIVE Flatten(_)
Flatten(ss) == IF ss = <<>> THEN <<>> ELSE Head(ss) \o Flatten(Tail(ss))


(***************************************************************************)
(* core/patterns.py: BasicPatternGenerator                                 *)
(***************************************************************************)

\* BasicPatternGenerator._get_max_length
BasicMaxLength == 20

BasicCommonNumbers ==
  << <<"1">>, <<"1", "2">>, <<"1", "2", "3">>, <<"1", "2", "3", "4">>,
     <<"0", "0", "7">>, <<"6", "9">>, <<"2", "0", "2", "4">>, <<"2", "0", "2", "3">> >>

BasicSpecialChars == <<"!", "@", "#", "$">>

\* word.replace(x, r).replace(X, r) for the letter x and its upper case X.
\* The replacement of the lower-case letter only
ReplaceLowerCaseOnly(w, lower, new) == StrReplace(w, lower, new)

ReplaceBothCases(w, lower, new) ==
  StrReplace(StrReplace(w, lower, new), UpperChar(lower), new)

\* One `if x in word.lower(): yield ...` block of smart_leet_transform.
BasicLeetBlock(w, lower, news) ==
  IF Contains(StrLower(w), lower)
    THEN [j \in 1..Len(news) |-> ReplaceBothCases(w, lower, news[j])]
    ELSE <<>>

\* BasicPatternGenerator.smart_leet_transform: the strings in yield order.
SmartLeetTransform(w) ==
  <<w>> \o BasicLeetBlock(w, "a", <<"4", "@">>)
        \o BasicLeetBlock(w, "e", <<"3">>)
        \o BasicLeetBlock(w, "i", <<"1">>)
        \o BasicLeetBlock(w, "o", <<"0">>)
        \o BasicLeetBlock(w, "s", <<"5", "$">>)

\* BasicPatternGenerator.smart_number_append
SmartNumberAppend(w) ==
  LET fits(num) == Len(w \o num) <= BasicMaxLength
  IN  [j \in 1..Len(SelectSeq(BasicCommonNumbers, fits)) |->
         w \o SelectSeq(BasicCommonNumbers, fits)[j]]
      \o [i \in 1..10 |-> w \o <<Digits[i]>>]

\* BasicPatternGenerator.smart_number_prepend
SmartNumberPrepend(w) ==
  LET fits(num) == Len(num \o w) <= BasicMaxLength
      firstFive == SelectSeq(SubSeq(BasicCommonNumbers, 1, 5), fits)
  IN  [j \in 1..Len(firstFive) |-> firstFive[j] \o w]
      \o [i \in 1..5 |-> <<Digits[i]>> \o w]

\* BasicPatternGenerator.smart_special_chars
SmartSpecialChars(w) ==
  Flatten([j \in 1..Len(BasicSpecialChars) |->
             (IF Len(<<BasicSpecialChars[j]>> \o w) <= BasicMaxLength
                THEN << <<BasicSpecialChars[j]>> \o w >> ELSE <<>>)
             \o
             (IF Len(w \o <<BasicSpecialChars[j]>>) <= BasicMaxLength
                THEN << w \o <<BasicSpecialChars[j]>> >> ELSE <<>>)])

(***************************************************************************)
(* core/patterns.py: AdvancedPatternGenerator                              *)
(***************************************************************************)

AdvancedMaxLength == 20

AdvSpecialChars == <<"!", "@", "#", "$", "%", "&", "*">>

AdvCommonNumbers ==
  << <<"1">>, <<"1", "2">>, <<"1", "2", "3">>, <<"1", "2", "3", "4">>,
     <<"1", "2", "3", "4", "5">>, <<"0", "0", "7">>, <<"6", "9">>,
     <<"4", "2", "0">>, <<"7", "7", "7">> >>

AdvYears ==
  << <<"2", "0", "2", "4">>, <<"2", "0", "2", "3">>, <<"2", "0", "2", "2">>,
     <<"2", "0", "2", "1">>, <<"2", "0", "2", "0">> >>

AdvSubstitutions ==
  << <<"a", "4">>, <<"a", "@">>, <<"e", "3">>, <<"i", "1">>, <<"i", "!">>,
     <<"o", "0">>, <<"s", "5">>, <<"s", "$">>, <<"t", "7">> >>

\* The case-preserving replacement loop of optimized_leet_transform: a
\* character is replaced when its lower case is the target.
ReplaceMixed(w, original, replacement) ==
  [i \in 1..Len(w) |-> IF LowerChar(w[i]) = original THEN replacement ELSE w[i]]

\* optimized_leet_transform that would also add the upper-case replacement
OptimizedLeetTransformWithUpper(w) ==
  {w} \cup UNION { IF Contains(StrLower(w), AdvSubstitutions[j][1])
                     THEN { StrReplace(StrLower(w), AdvSubstitutions[j][1], AdvSubstitutions[j][2]),
                            StrUpper(ReplaceMixed(w, AdvSubstitutions[j][1], AdvSubstitutions[j][2])),
                            ReplaceMixed(w, AdvSubstitutions[j][1], AdvSubstitutions[j][2]) }
                     ELSE {} : j \in 1..Len(AdvSubstitutions) }

\* AdvancedPatternGenerator.optimized_leet_transform
OptimizedLeetTransform(w) ==
  {w} \cup UNION { IF Contains(StrLower(w), AdvSubstitutions[j][1])
                     THEN { StrReplace(StrLower(w), AdvSubstitutions[j][1], AdvSubstitutions[j][2]),
                            ReplaceMixed(w, AdvSubstitutions[j][1], AdvSubstitutions[j][2]) }
                     ELSE {} : j \in 1..Len(AdvSubstitutions) }

\* str.split(sep) for a one-character separator: the parts, in order.
RECURSIVE StrSplit(_, _)
StrSplit(w, sep) ==
  IF ~Contains(w, sep) THEN <<w>>
  ELSE LET k == CHOOSE i \in 1..Len(w) : w[i] = sep /\ \A j \in 1..(i - 1) : w[j] # sep
       IN  <<SubSeq(w, 1, k - 1)>> \o StrSplit(SubSeq(w, k + 1, Len(w)), sep)

Separators == <<" ", "-", "_", ".">>

\* parts[0] + ''.join(part.capitalize() for part in parts[1:])
CamelCase(parts) ==
  parts[1] \o Flatten([j \in 1..(Len(parts) - 1) |-> StrCapitalize(parts[j + 1])])

\* AdvancedPatternGenerator.optimized_capitalization
OptimizedCapitalization(w) ==
  {StrUpper(w), StrCapitalize(w)}
  \cup (IF Len(w) > 3 THEN {<<UpperChar(w[1])>> \o StrLower(SubSeq(w, 2, Len(w)))} ELSE {})
  \cup (IF \E j \in 1..Len(Separators) : Contains(w, Separators[j])
          THEN LET first == CHOOSE j \in 1..Len(Separators) :
                              /\ Contains(w, Separators[j])
                              /\ \A h \in 1..(j - 1) : ~Contains(w, Separators[h])
               IN  {CamelCase(StrSplit(w, Separators[first]))}
          ELSE {})

\* str(i) for 10, 20, ..., 90
Tens == {<<Digits[i + 1], "0">> : i \in 1..9}

\* AdvancedPatternGenerator.optimized_number_append
OptimizedNumberAppend(w) ==
  {w \o AdvCommonNumbers[j] : j \in {i \in 1..Len(AdvCommonNumbers) :
                                       Len(w \o AdvCommonNumbers[i]) <= AdvancedMaxLength}}
  \cup {w \o AdvYears[j] : j \in {i \in 1..Len(AdvYears) :
                                    Len(w \o AdvYears[i]) <= AdvancedMaxLength}}
  \cup {w \o <<Digits[i]>> : i \in 1..10}
  \cup {w \o t : t \in Tens}

\* AdvancedPatternGenerator.optimized_number_prepend
OptimizedNumberPrepend(w) ==
  {AdvCommonNumbers[j] \o w : j \in {i \in 1..8 :
                                       Len(AdvCommonNumbers[i] \o w) <= AdvancedMaxLength}}
  \cup {AdvYears[j] \o w : j \in {i \in 1..3 :
                                    Len(AdvYears[i] \o w) <= AdvancedMaxLength}}
  \cup {<<Digits[i]>> \o w : i \in 1..10}

\* AdvancedPatternGenerator.optimized_special_chars
OptimizedSpecialChars(w) ==
  UNION { {<<AdvSpecialChars[j]>> \o w, w \o <<AdvSpecialChars[j]>>}
          \cup (IF AdvSpecialChars[j] \in {"!", "@", "#"}
                  THEN {<<AdvSpecialChars[j]>> \o w \o <<AdvSpecialChars[j]>>} ELSE {})
          : j \in 1..Len(AdvSpecialChars) }
  \cup {<<AdvSpecialChars[a]>> \o w \o <<AdvSpecialChars[b]>> : a, b \in 1..2}

(***************************************************************************)
(* core/optimizations.py: BloomFilter                                      *)
(***************************************************************************)

\* -ln(0.01) / (ln 2)^2 = 9.585058377..., in three base-1000 digits after
\* the integer part; ln 2 = 0.693147..., in millionths.  The filter is
\* always built with false_positive_rate = 0.01 (the default, and the value
\* the engine passes).
SizeRatioInt == 9
SizeRatioFrac == <<585, 58, 377>>
Ln2Millionths == 693147

\* BloomFilter._optimal_size: int(-(n * log(p)) / (log(2) ** 2)) for p = 0.01.
\* int() truncates.  The product is formed digit by digit (base 1000) to
\* stay inside machine integers.
OptimalSize(n) ==
  LET a  == n \div 1000
      b  == n % 1000
      t0 == b * SizeRatioFrac[3]
      t1 == a * SizeRatioFrac[3] + b * SizeRatioFrac[2] + (t0 \div 1000)
      t2 == a * SizeRatioFrac[2] + b * SizeRatioFrac[1] + (t1 \div 1000)
  IN  SizeRatioInt * n + a * SizeRatioFrac[1] + (t2 \div 1000)

\* int((m / n) * log(2)), truncated
HashCountRaw(n, m) ==
  LET q == m \div n
      r == m % n
      d == r * (Ln2Millionths \div 1000)
      x == 1000 * (d \div n) + (((d % n) * 1000 + r * (Ln2Millionths % 1000)) \div n)
  IN  (q * Ln2Millionths + x) \div 1000000

\* BloomFilter._optimal_hash_count: max(1, int((m / n) * log(2)))
OptimalHashCount(n, m) == IF HashCountRaw(n, m) > 1 THEN HashCountRaw(n, m) ELSE 1

\* str(i) for i >= 0
RECURSIVE DecStr(_)
DecStr(i) == IF i < 10 THEN <<Digits[i + 1]>> ELSE DecStr(i \div 10) \o <<Digits[(i % 10) + 1]>>

\* Stand-in for int(hashlib.md5(text.encode()).hexdigest(), 16): a
\* deterministic digest of the bytes of the text.  MD5 itself is not
\* computed; what the filter relies on is that the digest is a function of
\* the text alone.
DigestModulus == 16777213
DigestBase == 127

RECURSIVE Digest(_, _)
Digest(text, h) ==
  IF text = <<>> THEN ((h % 32749) * 65521 + (h \div 512)) % DigestModulus
  ELSE Digest(Tail(text), (h * DigestBase + Ascii[Head(text)]) % DigestModulus)

\* BloomFilter._hashes: md5(f"{item}{i}") % size for i in range(hash_count)
Hashes(item, size, hash_count) ==
  [j \in 1..hash_count |-> Digest(item \o DecStr(j - 1), 7) % size]

\* The bytearray, kept sparsely: a function from the indices of the bytes
\* that are not zero to their values.
EmptyBitArray == <<>>

ByteAt(bit_array, byte_index) ==
  IF byte_index \in DOMAIN bit_array THEN bit_array[byte_index] ELSE 0

RECURSIVE Pow2(_)
Pow2(e) == IF e = 0 THEN 1 ELSE 2 * Pow2(e - 1)

\* byte & (1 << bit_index) is not zero
BitAnd(byte, bit_index) == (byte \div Pow2(bit_index)) % 2 = 1

\* byte | (1 << bit_index)
BitOr(byte, bit_index) == IF BitAnd(byte, bit_index) THEN byte ELSE byte + Pow2(bit_index)

\* SetBit with the bit index off by one: (hash_val + 1) % 8
SetBitShifted(bit_array, hash_val) ==
  LET byte_index == hash_val \div 8
      bit_index  == (hash_val + 1) % 8
  IN  [b \in (DOMAIN bit_array) \cup {byte_index} |->
         IF b = byte_index THEN BitOr(ByteAt(bit_array, b), bit_index) ELSE bit_array[b]]

\* SetBit that assigns the mask instead of or-ing it in:
\* bit_array[byte_index] = (1 << bit_index)
SetBitOverwriting(bit_array, hash_val) ==
  LET byte_index == hash_val \div 8
      bit_index  == hash_val % 8
  IN  [b \in (DOMAIN bit_array) \cup {byte_index} |->
         IF b = byte_index THEN Pow2(bit_index) ELSE bit_array[b]]

\* bit_array[byte_index] |= (1 << bit_index), with hash_val // 8 and hash_val % 8
SetBit(bit_array, hash_val) ==
  LET byte_index == hash_val \div 8
      bit_index  == hash_val % 8
  IN  [b \in (DOMAIN bit_array) \cup {byte_index} |->
         IF b = byte_index THEN BitOr(ByteAt(bit_array, b), bit_index) ELSE bit_array[b]]

TestBit(bit_array, hash_val) == BitAnd(ByteAt(bit_array, hash_val \div 8), hash_val % 8)

RECURSIVE AddLoop(_, _)
AddLoop(bit_array, hs) ==
  IF hs = <<>> THEN bit_array ELSE AddLoop(SetBit(bit_array, Head(hs)), Tail(hs))

\* add that sets no bit
BloomAddNothing(bit_array, item, size, hash_count) == bit_array

\* BloomFilter.add: the bit array after the call
BloomAdd(bit_array, item, size, hash_count) ==
  AddLoop(bit_array, Hashes(item, size, hash_count))

RECURSIVE ContainsLoop(_, _)
ContainsLoop(bit_array, hs) ==
  IF hs = <<>> THEN TRUE
  ELSE IF ~TestBit(bit_array, Head(hs)) THEN FALSE
  ELSE ContainsLoop(bit_array, Tail(hs))

\* BloomFilter.contains: the value returned
BloomContains(bit_array, item, size, hash_count) ==
  ContainsLoop(bit_array, Hashes(item, size, hash_count))

(***************************************************************************)
(* State                                                                   *)
(***************************************************************************)

VARIABLES
  \* the process
  PSUTIL_AVAILABLE,          \* the import of psutil succeeded
  now,                       \* time.time(), in ticks of the clock
  hash_seed,                 \* the seed of str hashing, which fixes the order of a set of str
  memory_mb,                 \* the resident memory of the process (MB), as last sampled
  \* BaseWordlistGenerator: the fields of one engine instance
  engine,                    \* "none", "ok" (constructed) or "error" (__init__ raised)
  mode,                      \* "basic" or "advanced"
  first_name, last_name,
  middle_name,               \* <<>> for None, <<name>> otherwise
  min_length, max_length,
  enable_leet, enable_capitals, append_numbers, prepend_numbers, special_chars,
  generated_count, duplicate_count,
  start_time,                \* 0 for None
  peak_memory_mb, total_processing_time,
  words_per_second,          \* a fraction <<numerator, denominator>>
  base_words,
  bloom_filter,              \* AdvancedWordlistGenerator: the filter's bit array
  current_word_variations,   \* AdvancedWordlistGenerator._current_word_variations
  \* the frame of the generator generate_with_callback returned
  pc,                        \* "none", "seed_loop", "variant_loop", "yielded", "done", "closed"
  callback,                  \* a callback was passed
  seen_words,
  last_performance_update,
  system_info_updates,
  seeds_left,                \* the seeds `for word in self.base_words` has not reached, in order
  word,                      \* the seed of the current iteration
  variants,                  \* what the variation generator has still to produce
  variation_count,
  \* history
  run_no,                    \* calls of generate_with_callback so far
  yielded,                   \* what this run has yielded, in order
  yielded_before,            \* what earlier runs of the instance yielded
  cb_log,                    \* the calls of the callback in this run, in order
  resource_checks,           \* "none", "over" (every check so far said stop) or "ok"
  stats_final,               \* the final _update_performance_stats of this run has run
  examined,                  \* the variants of this run that reached the acceptance test
  sampling,                  \* the memory samples of this run against its clock readings:
                             \* see AfterSample and AfterRead
  \* BloomFilter, on its own
  bf_size, bf_hash_count, bf_bit_array,
  bf_expected_items,         \* the expected_items the filter was built with
  bf_added,                  \* the items add was called with
  bf_result,                 \* <<item, value>> of the last contains call, or <<>>
  \* StreamingFileWriter
  w_state,                   \* "new", "open", "closed", and "failed" once an exception left the with block
  w_buffer, w_buffer_size, w_word_count,
  w_file,                    \* the lines written to the file
  w_file_open,               \* file_obj is an open file
  w_added,                   \* the words add_word was called with, in order
  w_raised,                  \* what raised on the way out: "none", "body" or "write"
  \* a pattern generator called on its own
  lib_call,                  \* <<class, method, word>> of the last call, or <<>>
  lib_result,                \* the strings that call produced
  \* the resource checks called on their own
  mon_usage,                 \* what get_memory_usage returned to the last such call
  mon_failed,                \* the sample of that call raised inside get_memory_usage
  mon_result,                \* <<should_continue(), _should_continue_generation()>> of the
                             \* last check, or <<>>
  stats_out                  \* what the last get_statistics() returned, or <<>>

processVars == <<PSUTIL_AVAILABLE, now, hash_seed, memory_mb>>

configVars ==
  <<mode, first_name, last_name, middle_name, min_length, max_length,
    enable_leet, enable_capitals, append_numbers, prepend_numbers, special_chars>>

statVars ==
  <<generated_count, duplicate_count, start_time, peak_memory_mb,
    total_processing_time, words_per_second>>

engineVars == <<engine, configVars, statVars, base_words, bloom_filter, current_word_variations>>

frameVars ==
  <<pc, callback, seen_words, last_performance_update, system_info_updates,
    seeds_left, word, variants, variation_count>>

historyVars ==
  <<run_no, yielded, yielded_before, cb_log, resource_checks, stats_final, examined,
    sampling>>

bloomVars == <<bf_size, bf_hash_count, bf_bit_array, bf_expected_items, bf_added, bf_result>>

writerVars ==
  <<w_state, w_buffer, w_buffer_size, w_word_count, w_file, w_file_open, w_added, w_raised>>

libraryVars == <<lib_call, lib_result>>

monitorVars == <<mon_usage, mon_failed, mon_result, stats_out>>

vars == <<processVars, engineVars, frameVars, historyVars, bloomVars, writerVars, libraryVars, monitorVars>>

(***************************************************************************)
(* core/generator.py: BaseWordlistGenerator                                *)
(***************************************************************************)

Admin == <<"a", "d", "m", "i", "n">>
OneTwoThree == <<"1", "2", "3">>

\* The three forms added for each single name.
NameForms(name) == {name, StrUpper(name), StrCapitalize(name)}

\* main_combos without last_name + first_name
MainCombosWithoutReversed(first, last) ==
  { first \o last,
    first \o <<"_">> \o last, first \o <<".">> \o last, first \o <<"-">> \o last,
    <<first[1]>> \o last, first \o <<last[1]>>, <<first[1], last[1]>>,
    first \o OneTwoThree, last \o OneTwoThree,
    Admin \o last, first \o Admin }

\* main_combos: the 12 first/last patterns
MainCombos(first, last) ==
  { first \o last, last \o first,
    first \o <<"_">> \o last, first \o <<".">> \o last, first \o <<"-">> \o last,
    <<first[1]>> \o last, first \o <<last[1]>>, <<first[1], last[1]>>,
    first \o OneTwoThree, last \o OneTwoThree,
    Admin \o last, first \o Admin }

\* limited_middle_combos with a fifth pattern, last + middle
MiddleCombosWithLastMiddle(first, last, middle) ==
  { first \o <<middle[1]>> \o last,
    <<first[1], middle[1], last[1]>>,
    middle \o last,
    first \o middle,
    last \o middle }

\* limited_middle_combos: evaluated only when first and last are not empty
MiddleCombos(first, last, middle) ==
  { first \o <<middle[1]>> \o last,
    <<first[1], middle[1], last[1]>>,
    middle \o last,
    first \o middle }

\* middle_name is <<>> (None) or <<name>>; `if self.middle_name` is false for
\* None and for the empty string.
HasMiddle(middle) == middle # <<>> /\ middle[1] # <<>>

\* _generate_smart_name_combinations raises IndexError: name[0] of an empty
\* name is evaluated only inside the middle-name block.
SeedBuilderRaises(first, last, middle) ==
  HasMiddle(middle) /\ (first = <<>> \/ last = <<>>)

\* BaseWordlistGenerator._generate_smart_name_combinations
SmartNameCombinations(first, last, middle, min, max) ==
  LET names == (IF first # <<>> THEN {first} ELSE {})
               \cup (IF last # <<>> THEN {last} ELSE {})
               \cup (IF HasMiddle(middle) THEN {middle[1]} ELSE {})
      combinations ==
        UNION {NameForms(n) : n \in names}
        \cup (IF first # <<>> /\ last # <<>> THEN MainCombos(first, last) ELSE {})
        \cup (IF HasMiddle(middle) THEN MiddleCombos(first, last, middle[1]) ELSE {})
  IN  {w \in combinations : min <= Len(w) /\ Len(w) <= max}

\* name.strip().lower()
Normalize(name) == StrLower(StrStrip(name))

\* middle_name.strip().lower() if middle_name else None
NormalizeMiddle(raw) == IF raw = <<>> \/ raw[1] = <<>> THEN <<>> ELSE <<Normalize(raw[1])>>

(***************************************************************************)
(* Bounds and inputs                                                       *)
(***************************************************************************)

\* The clock counts ticks of TickTenths tenths of a second and stops at
\* MaxTime; an engine instance is run at most MaxRuns times.
TickTenths == 6
MaxTime == 2
MaxRuns == 2
\* The seeds of str hashing tried: 0..MaxHashSeed.
MaxHashSeed == 1

\* What a memory sample (MB) can read: below the limits, above them.  The
\* memory of the process grows while the engine runs: a sample is never
\* below the one before it.
MemSamples == {100, 520}

\* PerformanceMonitor.should_continue(max_memory_mb=500)
MaxMemoryMb == 500
\* _should_continue_generation: peak_memory_mb > 450
PeakMemoryCeiling == 450
\* the sampling intervals 0.5 s and 0.3 s, in tenths of a second
BasicUpdateInterval == 5
AdvancedUpdateInterval == 3
\* AdvancedWordlistGenerator: BloomFilter(expected_items=1000000, ...) and
\* max_variations_per_word
ExpectedItems == 1000000
MaxVariationsPerWord == 500

EngineBloomSize == OptimalSize(ExpectedItems)
EngineHashCount == OptimalHashCount(ExpectedItems, EngineBloomSize)

Toggles(leet, capitals, append, prepend, special) ==
  [leet |-> leet, capitals |-> capitals, append |-> append,
   prepend |-> prepend, special |-> special]

AllOff == Toggles(FALSE, FALSE, FALSE, FALSE, FALSE)
AllOn == Toggles(TRUE, TRUE, TRUE, TRUE, TRUE)

Config(m, first, last, middle, min, max, toggles) ==
  [mode |-> m, first |-> first, last |-> last, middle |-> middle,
   min |-> min, max |-> max, toggles |-> toggles]

(***************************************************************************)
(* Construction                                                            *)
(***************************************************************************)

Max(a, b) == IF a >= b THEN a ELSE b

Zero == <<0, 1>>

\* BaseWordlistGenerator.__init__ (and the subclasses' __init__), called by
\* create_generator(mode, ...) with the arguments of c.
Construct(c) ==
  /\ engine = "none"
  /\ mode' = c.mode
  /\ first_name' = Normalize(c.first)
  /\ last_name' = Normalize(c.last)
  /\ middle_name' = NormalizeMiddle(c.middle)
  /\ min_length' = c.min
  /\ max_length' = c.max
  /\ enable_leet' = c.toggles.leet
  /\ enable_capitals' = c.toggles.capitals
  /\ append_numbers' = c.toggles.append
  /\ prepend_numbers' = c.toggles.prepend
  /\ special_chars' = c.toggles.special
  /\ generated_count' = 0
  /\ duplicate_count' = 0
  /\ start_time' = 0
  /\ peak_memory_mb' = 0
  /\ total_processing_time' = 0
  /\ words_per_second' = Zero
  /\ IF SeedBuilderRaises(first_name', last_name', middle_name')
       THEN /\ engine' = "error"
            /\ base_words' = {}
       ELSE /\ engine' = "ok"
            /\ base_words' = SmartNameCombinations(first_name', last_name', middle_name',
                                                   c.min, c.max)
  /\ bloom_filter' = EmptyBitArray
  /\ current_word_variations' = 0
  /\ UNCHANGED <<processVars, frameVars, historyVars, bloomVars, writerVars, libraryVars, monitorVars>>

(***************************************************************************)
(* Performance statistics and the resource check                           *)
(***************************************************************************)

\* _update_performance_stats, piece by piece.  mem is what get_memory_usage
\* returns, t what time.time() returns, peak the peak before the call.
\* (The CPU samples and variations_processed are written only, never read
\* by the engines, and are left out.)
UpdatedPeak(peak, mem) == IF PSUTIL_AVAILABLE THEN Max(peak, mem) ELSE peak

\* time.time() - since > interval, for an interval in tenths of a second
Elapsed(t, since, interval) == (t - since) * TickTenths > interval

UpdatedTotal(t) == IF start_time # 0 THEN t - start_time ELSE total_processing_time

UpdatedWps(t) ==
  IF start_time # 0
    THEN (IF t - start_time > 0 THEN <<generated_count, t - start_time>> ELSE Zero)
    ELSE words_per_second

\* PerformanceMonitor.should_continue: memory usage < max_memory_mb, and
\* True without psutil.
MonitorShouldContinue(mem) == IF ~PSUTIL_AVAILABLE THEN TRUE ELSE mem < MaxMemoryMb

\* BaseWordlistGenerator._should_continue_generation
ShouldContinueGeneration(mem, peak) ==
  IF ~PSUTIL_AVAILABLE THEN TRUE
  ELSE IF ~MonitorShouldContinue(mem) THEN FALSE
  ELSE IF peak > PeakMemoryCeiling THEN FALSE
  ELSE TRUE

\* What get_memory_usage can return after a sample of `last`: nothing is
\* measured without psutil.
SamplesFrom(last) == IF PSUTIL_AVAILABLE THEN {m \in MemSamples : m >= last} ELSE {0}

Samples == SamplesFrom(memory_mb)

\* The memory after a sample of mem
Sampled(mem) == IF PSUTIL_AVAILABLE THEN mem ELSE memory_mb

\* The memory samples of a run set against its clock readings.  A sample is
\* taken at some time between the clock reading before it and the one
\* after it.  sampling is <<lower, pending, close>>:
\*   lower    the clock reading that preceded the latest sample, -1 if the
\*            run has taken no sample;
\*   pending  when two samples have been taken one after the other and the
\*            clock has not been read since: the reading that preceded the
\*            first of the two, else -1;
\*   close    two consecutive samples lay between two clock readings that
\*            are no more than the sampling interval apart.
NoSampling == <<-1, -1, FALSE>>

\* get_memory_usage takes a sample (with psutil); `at` is the clock reading
\* before it.
AfterSample(s, at) == IF PSUTIL_AVAILABLE THEN <<at, s[1], s[3]>> ELSE s

\* The intervals of `time.time() - last_performance_update > 0.5` (Basic)
\* and `> 0.3` (Advanced)
SamplingInterval == IF mode = "basic" THEN BasicUpdateInterval ELSE AdvancedUpdateInterval

\* time.time() is read and returns t.
AfterRead(s, t) ==
  <<s[1], -1, s[3] \/ (s[2] >= 0 /\ (t - s[2]) * TickTenths <= SamplingInterval)>>

\* The periodic block of the Basic engine, entered on the reading t: the
\* sample of _update_performance_stats, its clock reading and that of
\* last_performance_update, then the sample of _should_continue_generation.
Periodic(s, t) == AfterSample(AfterRead(AfterSample(AfterRead(s, t), t), t), t)

\* The outcomes of the resource checks of a run so far: "none" (no check
\* yet), "ok" (all said continue), "over" (all said stop) or "mixed".
Checked(prev, continue) ==
  LET this == IF continue THEN "ok" ELSE "over"
  IN  IF prev = "none" \/ prev = this THEN this ELSE "mixed"

\* The callback called before generated_count is incremented
CallBeforeCount(kind, text, generated, duplicates) ==
  [kind |-> kind, text |-> text, generated |-> generated - 1, duplicates |-> duplicates]

\* An entry of the callback log: callback(text, generated_count, duplicate_count)
Call(kind, text, generated, duplicates) ==
  [kind |-> kind, text |-> text, generated |-> generated, duplicates |-> duplicates]

Logged(log, entry) == IF callback THEN Append(log, entry) ELSE log

\* The order in which a set of str is iterated is fixed by the hashes of its
\* members, which depend on the process's hash seed: the members are listed
\* by a seeded key, in an arbitrary fixed order.
RECURSIVE Listed(_)
Listed(keyed) ==
  IF keyed = {} THEN <<>>
  ELSE LET x == CHOOSE y \in keyed : TRUE
       IN  <<x[2]>> \o Listed(keyed \ {x})

\* The members by increasing key; members with equal keys in the arbitrary order.
RECURSIVE SortedByKey(_, _, _)
SortedByKey(keyed, lo, hi) ==
  IF keyed = {} THEN <<>>
  ELSE IF Cardinality(keyed) = 1 \/ hi - lo <= 1 THEN Listed(keyed)
  ELSE LET mid == (lo + hi) \div 2
       IN  SortedByKey({p \in keyed : p[1] < mid}, lo, mid)
           \o SortedByKey({p \in keyed : p[1] >= mid}, mid, hi)

\* list(a_set)
ListOf(set) ==
  SortedByKey({<<Digest(w, hash_seed + 1), w>> : w \in set}, 0, DigestModulus)

\* seq[:n]
FirstN(seq, n) == SubSeq(seq, 1, IF Len(seq) < n THEN Len(seq) ELSE n)

(***************************************************************************)
(* generate_with_callback: the start of a run                              *)
(***************************************************************************)

\* The start of a run that does not reset generated_count and duplicate_count
StartRunKeepingCounts(cb, runs) ==
  /\ engine = "ok"
  /\ pc \in {"none", "done", "closed"}
  /\ run_no < runs
  /\ start_time' = now
  /\ last_performance_update' = now
  /\ seen_words' = {}
  /\ system_info_updates' = 0
  /\ seeds_left' = ListOf(base_words)
  /\ pc' = "seed_loop"
  /\ callback' = cb
  /\ word' = <<>>
  /\ variants' = <<>>
  /\ variation_count' = 0
  /\ run_no' = run_no + 1
  /\ yielded' = <<>>
  /\ yielded_before' = yielded_before \cup Range(yielded)
  /\ cb_log' = <<>>
  /\ resource_checks' = "none"
  /\ stats_final' = FALSE
  /\ examined' = 0
  /\ sampling' = NoSampling
  /\ UNCHANGED <<processVars, engine, configVars, generated_count, duplicate_count,
                 peak_memory_mb, total_processing_time, words_per_second, base_words,
                 bloom_filter, current_word_variations, bloomVars, writerVars, libraryVars, monitorVars>>

\* generate_with_callback that would start from an empty Bloom filter
StartRunResettingFilter(cb, runs) ==
  /\ engine = "ok"
  /\ pc \in {"none", "done", "closed"}
  /\ run_no < runs
  /\ start_time' = now
  /\ last_performance_update' = now
  /\ generated_count' = 0
  /\ duplicate_count' = 0
  /\ seen_words' = {}
  /\ system_info_updates' = 0
  /\ seeds_left' = ListOf(base_words)
  /\ pc' = "seed_loop"
  /\ callback' = cb
  /\ word' = <<>>
  /\ variants' = <<>>
  /\ variation_count' = 0
  /\ run_no' = run_no + 1
  /\ yielded' = <<>>
  /\ yielded_before' = yielded_before \cup Range(yielded)
  /\ cb_log' = <<>>
  /\ resource_checks' = "none"
  /\ stats_final' = FALSE
  /\ examined' = 0
  /\ sampling' = NoSampling
  /\ bloom_filter' = EmptyBitArray
  /\ UNCHANGED <<processVars, engine, configVars, peak_memory_mb, total_processing_time,
                 words_per_second, base_words, current_word_variations,
                 bloomVars, writerVars, libraryVars, monitorVars>>

\* The first lines of generate_with_callback (both engines), run when the
\* generator is first advanced.  cb: a callback was passed; runs: how many
\* runs the instance is given.
StartRun(cb, runs) ==
  /\ engine = "ok"
  /\ pc \in {"none", "done", "closed"}
  /\ run_no < runs
  /\ start_time' = now
  /\ last_performance_update' = now
  /\ generated_count' = 0
  /\ duplicate_count' = 0
  /\ seen_words' = {}
  /\ system_info_updates' = 0
  /\ seeds_left' = ListOf(base_words)
  /\ pc' = "seed_loop"
  /\ callback' = cb
  /\ word' = <<>>
  /\ variants' = <<>>
  /\ variation_count' = 0
  /\ run_no' = run_no + 1
  /\ yielded' = <<>>
  /\ yielded_before' = yielded_before \cup Range(yielded)
  /\ cb_log' = <<>>
  /\ resource_checks' = "none"
  /\ stats_final' = FALSE
  /\ examined' = 0
  /\ sampling' = NoSampling
  /\ UNCHANGED <<processVars, engine, configVars, peak_memory_mb, total_processing_time,
                 words_per_second, base_words, bloom_filter, current_word_variations,
                 bloomVars, writerVars, libraryVars, monitorVars>>

(***************************************************************************)
(* BasicWordlistGenerator                                                  *)
(***************************************************************************)

\* The variations without the word itself at their head
EfficientVariationsWithoutWord(w) ==
  (IF enable_capitals
     THEN <<StrUpper(w), StrCapitalize(w)>>
          \o (IF Len(w) > 3
                THEN << <<UpperChar(w[1])>> \o StrLower(SubSeq(w, 2, Len(w))) >>
                ELSE <<>>)
     ELSE <<>>)
  \o (IF enable_leet THEN SmartLeetTransform(w) ELSE <<>>)
  \o (IF append_numbers THEN SmartNumberAppend(w) ELSE <<>>)
  \o (IF prepend_numbers THEN SmartNumberPrepend(w) ELSE <<>>)
  \o (IF special_chars THEN SmartSpecialChars(w) ELSE <<>>)

\* BasicWordlistGenerator._generate_efficient_variations: the strings in the
\* order they are produced.
EfficientVariations(w) ==
  <<w>>
  \o (IF enable_capitals
        THEN <<StrUpper(w), StrCapitalize(w)>>
             \o (IF Len(w) > 3
                   THEN << <<UpperChar(w[1])>> \o StrLower(SubSeq(w, 2, Len(w))) >>
                   ELSE <<>>)
        ELSE <<>>)
  \o (IF enable_leet THEN SmartLeetTransform(w) ELSE <<>>)
  \o (IF append_numbers THEN SmartNumberAppend(w) ELSE <<>>)
  \o (IF prepend_numbers THEN SmartNumberPrepend(w) ELSE <<>>)
  \o (IF special_chars THEN SmartSpecialChars(w) ELSE <<>>)
  \o (IF enable_leet /\ append_numbers
        THEN LET leet == SmartLeetTransform(w)
                 firstThree == SubSeq(leet, 1, IF Len(leet) < 3 THEN Len(leet) ELSE 3)
             IN  Flatten([j \in 1..Len(firstThree) |-> SmartNumberAppend(firstThree[j])])
        ELSE <<>>)

\* The acceptance test without the membership test on seen_words
BasicAcceptsIgnoringSeen(variant, seen) ==
  min_length <= Len(variant) /\ Len(variant) <= max_length

\* The acceptance test of the Basic loop
BasicAccepts(variant, seen) ==
  variant \notin seen /\ min_length <= Len(variant) /\ Len(variant) <= max_length

\* The code after the loop: the final _update_performance_stats.  t is the
\* time it reads, peak the peak before it, log the callback log so far.
BasicFinish(t, peak, mem, log, checks) ==
  /\ now' = t
  /\ memory_mb' = Sampled(mem)
  /\ peak_memory_mb' = UpdatedPeak(peak, mem)
  /\ total_processing_time' = UpdatedTotal(t)
  /\ words_per_second' = UpdatedWps(t)
  /\ pc' = "done"
  /\ cb_log' = log
  /\ resource_checks' = checks
  /\ stats_final' = TRUE
  /\ variants' = <<>>
  /\ UNCHANGED <<PSUTIL_AVAILABLE, hash_seed, engine, configVars, generated_count, duplicate_count,
                 start_time, base_words, bloom_filter, current_word_variations,
                 callback, seen_words, last_performance_update, system_info_updates,
                 seeds_left, word, variation_count, run_no, examined, yielded, yielded_before,
                 bloomVars, writerVars, libraryVars, monitorVars>>

\* The head of `for word in self.base_words` and the periodic resource check,
\* up to the point where the variations of the word start to be produced.
BasicNextSeed ==
  /\ mode = "basic"
  /\ pc = "seed_loop" \/ (pc = "variant_loop" /\ variants = <<>>)
  /\ IF seeds_left = <<>>
       THEN \E t \in now..MaxTime, m \in Samples :
              /\ BasicFinish(t, peak_memory_mb, m, cb_log, resource_checks)
              /\ sampling' = AfterRead(AfterSample(sampling, now), t)
       ELSE \E t \in now..MaxTime, m1 \in Samples : \E m2 \in SamplesFrom(m1) :
              IF Elapsed(t, last_performance_update, BasicUpdateInterval)
                   /\ ~ShouldContinueGeneration(m2, UpdatedPeak(peak_memory_mb, m1))
                THEN \* the statistics are updated, the callback is told, break
                     \E t2 \in t..MaxTime, m3 \in SamplesFrom(m2) :
                       /\ BasicFinish(t2, UpdatedPeak(peak_memory_mb, m1), m3,
                                      Logged(cb_log, Call("stopped", <<>>, generated_count,
                                                          duplicate_count)),
                                      Checked(resource_checks, FALSE))
                       /\ sampling' = AfterRead(AfterSample(Periodic(sampling, t), t), t2)
                ELSE /\ now' = t
                     /\ IF Elapsed(t, last_performance_update, BasicUpdateInterval)
                          THEN /\ peak_memory_mb' = UpdatedPeak(peak_memory_mb, m1)
                               /\ total_processing_time' = UpdatedTotal(t)
                               /\ words_per_second' = UpdatedWps(t)
                               /\ last_performance_update' = t
                               /\ resource_checks' = Checked(resource_checks, TRUE)
                               /\ memory_mb' = Sampled(m2)
                               /\ sampling' = Periodic(sampling, t)
                          ELSE /\ sampling' = AfterRead(sampling, t)
                               /\ UNCHANGED <<peak_memory_mb, total_processing_time,
                                              words_per_second, last_performance_update,
                                              resource_checks, memory_mb>>
                     /\ word' = Head(seeds_left)
                     /\ seeds_left' = Tail(seeds_left)
                     /\ variants' = EfficientVariations(Head(seeds_left))
                     /\ pc' = "variant_loop"
                     /\ UNCHANGED <<PSUTIL_AVAILABLE, hash_seed, engine, configVars, generated_count,
                                    duplicate_count, start_time, base_words, bloom_filter,
                                    current_word_variations, callback, seen_words,
                                    system_info_updates, variation_count, run_no, examined, yielded,
                                    yielded_before, cb_log, stats_final, bloomVars, writerVars, libraryVars, monitorVars>>

\* The loop body without the `else: self.duplicate_count += 1`
BasicStepVariantUncounted ==
  /\ mode = "basic"
  /\ pc = "variant_loop"
  /\ variants # <<>>
  /\ \E m \in Samples :
       LET variant == Head(variants)
           continue == ShouldContinueGeneration(m, peak_memory_mb)
           accept == BasicAccepts(variant, seen_words)
       IN  /\ resource_checks' = Checked(resource_checks, continue)
           /\ memory_mb' = Sampled(m)
           /\ examined' = IF continue THEN examined + 1 ELSE examined
           /\ sampling' = AfterSample(sampling, now)
           /\ IF ~continue
                THEN \* break: the rest of the word's variations is dropped
                     /\ variants' = <<>>
                     /\ UNCHANGED <<seen_words, generated_count, duplicate_count, yielded,
                                    cb_log, pc>>
                ELSE /\ variants' = Tail(variants)
                     /\ IF accept
                          THEN /\ seen_words' = seen_words \cup {variant}
                               /\ generated_count' = generated_count + 1
                               /\ cb_log' = Logged(cb_log, Call("word", variant,
                                                               generated_count + 1,
                                                               duplicate_count))
                               /\ yielded' = Append(yielded, variant)
                               /\ pc' = "yielded"
                               /\ UNCHANGED duplicate_count
                          ELSE UNCHANGED <<duplicate_count, seen_words, generated_count,
                                           yielded, cb_log, pc>>
  /\ UNCHANGED <<PSUTIL_AVAILABLE, now, hash_seed, engine, configVars, start_time,
                 peak_memory_mb,
                 total_processing_time, words_per_second, base_words, bloom_filter,
                 current_word_variations, callback, last_performance_update,
                 system_info_updates, seeds_left, word, variation_count, run_no,
                 yielded_before, stats_final, bloomVars, writerVars, libraryVars, monitorVars>>

\* One iteration of `for variant in self._generate_efficient_variations(word)`:
\* the resource check, then the variant is accepted and yielded, or counted
\* as a duplicate.
BasicStepVariant ==
  /\ mode = "basic"
  /\ pc = "variant_loop"
  /\ variants # <<>>
  /\ \E m \in Samples :
       LET variant == Head(variants)
           continue == ShouldContinueGeneration(m, peak_memory_mb)
           accept == BasicAccepts(variant, seen_words)
       IN  /\ resource_checks' = Checked(resource_checks, continue)
           /\ memory_mb' = Sampled(m)
           /\ examined' = IF continue THEN examined + 1 ELSE examined
           /\ sampling' = AfterSample(sampling, now)
           /\ IF ~continue
                THEN \* break: the rest of the word's variations is dropped
                     /\ variants' = <<>>
                     /\ UNCHANGED <<seen_words, generated_count, duplicate_count, yielded,
                                    cb_log, pc>>
                ELSE /\ variants' = Tail(variants)
                     /\ IF accept
                          THEN /\ seen_words' = seen_words \cup {variant}
                               /\ generated_count' = generated_count + 1
                               /\ cb_log' = Logged(cb_log, Call("word", variant,
                                                               generated_count + 1,
                                                               duplicate_count))
                               /\ yielded' = Append(yielded, variant)
                               /\ pc' = "yielded"
                               /\ UNCHANGED duplicate_count
                          ELSE /\ duplicate_count' = duplicate_count + 1
                               /\ UNCHANGED <<seen_words, generated_count, yielded, cb_log, pc>>
  /\ UNCHANGED <<PSUTIL_AVAILABLE, now, hash_seed, engine, configVars, start_time,
                 peak_memory_mb,
                 total_processing_time, words_per_second, base_words, bloom_filter,
                 current_word_variations, callback, last_performance_update,
                 system_info_updates, seeds_left, word, variation_count, run_no,
                 yielded_before, stats_final, bloomVars, writerVars, libraryVars, monitorVars>>

(***************************************************************************)
(* The consumer of the generator                                           *)
(***************************************************************************)

\* next() on a generator suspended at its yield: the loop goes on.
Pull ==
  /\ pc = "yielded"
  /\ pc' = "variant_loop"
  /\ UNCHANGED <<processVars, engineVars, callback, seen_words, last_performance_update,
                 system_info_updates, seeds_left, word, variants, variation_count,
                 historyVars, bloomVars, writerVars, libraryVars, monitorVars>>

\* The consumer leaves its loop (break) after a yield: the generator is
\* closed where it is suspended and nothing after the yield is executed.
Abandon ==
  /\ pc = "yielded"
  /\ pc' = "closed"
  /\ UNCHANGED <<processVars, engineVars, callback, seen_words, last_performance_update,
                 system_info_updates, seeds_left, word, variants, variation_count,
                 historyVars, bloomVars, writerVars, libraryVars, monitorVars>>

(***************************************************************************)
(* AdvancedWordlistGenerator                                               *)
(***************************************************************************)

\* Phase 1 of _generate_optimized_variations
PhaseOne(w) ==
  {w}
  \cup (IF enable_capitals THEN OptimizedCapitalization(w) ELSE {})
  \cup (IF enable_leet THEN Range(FirstN(ListOf(OptimizedLeetTransform(w)), 30)) ELSE {})

\* Phase 2: the number variations of the first 50 members
PhaseTwo(variations) ==
  IF append_numbers \/ prepend_numbers
    THEN UNION { (IF append_numbers THEN OptimizedNumberAppend(v) ELSE {})
                 \cup (IF prepend_numbers THEN OptimizedNumberPrepend(v) ELSE {})
                 : v \in Range(FirstN(ListOf(variations), 50)) }
    ELSE {}

\* Phase 3 without `[:50]`
PhaseThreeOfAll(variations) ==
  IF special_chars
    THEN UNION { OptimizedSpecialChars(v) : v \in variations }
    ELSE {}

\* Phase 3: the special-character variations of the first 50 members
PhaseThree(variations) ==
  IF special_chars
    THEN UNION { OptimizedSpecialChars(v) : v \in Range(FirstN(ListOf(variations), 50)) }
    ELSE {}

\* The set _generate_optimized_variations collects before it yields
OptimizedVariationSet(w) ==
  LET one == PhaseOne(w)
      two == one \cup PhaseTwo(one)
  IN  two \cup PhaseThree(two)

\* The acceptance test without the length bounds
AdvancedAcceptsAnyLength(variant, bit_array) ==
  ~BloomContains(bit_array, variant, EngineBloomSize, EngineHashCount)

\* The acceptance test without the Bloom filter
AdvancedAcceptsIgnoringFilter(variant, bit_array) ==
  min_length <= Len(variant) /\ Len(variant) <= max_length

\* The acceptance test of the Advanced loop
AdvancedAccepts(variant, bit_array) ==
  /\ min_length <= Len(variant)
  /\ Len(variant) <= max_length
  /\ ~BloomContains(bit_array, variant, EngineBloomSize, EngineHashCount)

\* The code after the loop: the final _update_performance_stats and the
\* completion message.
AdvancedFinish(t, peak, mem, log, checks) ==
  /\ now' = t
  /\ memory_mb' = Sampled(mem)
  /\ peak_memory_mb' = UpdatedPeak(peak, mem)
  /\ total_processing_time' = UpdatedTotal(t)
  /\ words_per_second' = UpdatedWps(t)
  /\ pc' = "done"
  /\ cb_log' = Logged(log, Call("complete", <<>>, generated_count, duplicate_count))
  /\ resource_checks' = checks
  /\ stats_final' = TRUE
  /\ variants' = <<>>
  /\ UNCHANGED <<PSUTIL_AVAILABLE, hash_seed, engine, configVars, generated_count,
                 duplicate_count, start_time, base_words, bloom_filter,
                 current_word_variations, callback, seen_words, last_performance_update,
                 system_info_updates, seeds_left, word, variation_count, run_no, examined, yielded,
                 yielded_before, bloomVars, writerVars, libraryVars, monitorVars>>

\* The loop of _generate_optimized_variations without its cap
StreamEndedUncapped == variants = <<>>

\* The variation generator of the current word has nothing more to produce:
\* the set is exhausted or _current_word_variations reached the limit.
StreamEnded == variants = <<>> \/ current_word_variations >= MaxVariationsPerWord

\* The head of `for word in self.base_words`: the resource check, then the
\* variation set of the word is built.
AdvancedNextSeed ==
  /\ mode = "advanced"
  /\ pc = "seed_loop" \/ (pc = "variant_loop" /\ StreamEnded)
  /\ IF seeds_left = <<>>
       THEN \E t \in now..MaxTime, m \in Samples :
              /\ AdvancedFinish(t, peak_memory_mb, m, cb_log, resource_checks)
              /\ sampling' = AfterRead(AfterSample(sampling, now), t)
       ELSE \E m1 \in Samples :
              IF ~ShouldContinueGeneration(m1, peak_memory_mb)
                THEN \E t \in now..MaxTime, m2 \in SamplesFrom(m1) :
                       /\ AdvancedFinish(t, peak_memory_mb, m2,
                                         Logged(cb_log, Call("stopped", <<>>, generated_count,
                                                             duplicate_count)),
                                         Checked(resource_checks, FALSE))
                       /\ sampling' =
                            AfterRead(AfterSample(AfterSample(sampling, now), now), t)
                ELSE /\ resource_checks' = Checked(resource_checks, TRUE)
                     /\ sampling' = AfterSample(sampling, now)
                     /\ memory_mb' = Sampled(m1)
                     /\ word' = Head(seeds_left)
                     /\ seeds_left' = Tail(seeds_left)
                     /\ current_word_variations' = 0
                     /\ variation_count' = 0
                     /\ variants' = ListOf(OptimizedVariationSet(Head(seeds_left)))
                     /\ pc' = "variant_loop"
                     /\ UNCHANGED <<PSUTIL_AVAILABLE, now, hash_seed, engine, configVars,
                                    statVars, base_words,
                                    bloom_filter, callback, seen_words,
                                    last_performance_update, system_info_updates, run_no, examined,
                                    yielded, yielded_before, cb_log, stats_final,
                                    bloomVars, writerVars, libraryVars, monitorVars>>

\* One iteration of `for variant in self._generate_optimized_variations(word)`.
AdvancedStepVariant ==
  /\ mode = "advanced"
  /\ pc = "variant_loop"
  /\ ~StreamEnded
  /\ \E m \in Samples, t \in now..MaxTime : \E m1 \in SamplesFrom(m) :
       LET variant == Head(variants)
           continue == ShouldContinueGeneration(m, peak_memory_mb)
           update == Elapsed(t, last_performance_update, AdvancedUpdateInterval)
           updates == system_info_updates + 1
           log1 == IF ~update THEN cb_log
                   ELSE IF updates % 5 = 0 /\ callback /\ PSUTIL_AVAILABLE
                     THEN Logged(cb_log, Call("memory_cpu", <<>>, generated_count,
                                              duplicate_count))
                   ELSE IF updates % 10 = 0 /\ callback
                     THEN Logged(cb_log, Call("progress", <<>>, generated_count,
                                              duplicate_count))
                   ELSE cb_log
           limited == variation_count >= MaxVariationsPerWord
           accept == AdvancedAccepts(variant, bloom_filter)
       IN  /\ resource_checks' = Checked(resource_checks, continue)
           /\ current_word_variations' = current_word_variations + 1
           /\ memory_mb' = Sampled(IF continue /\ update THEN m1 ELSE m)
           /\ examined' = IF continue /\ ~limited THEN examined + 1 ELSE examined
           /\ sampling' =
                IF ~continue THEN AfterSample(sampling, now)
                ELSE IF update
                  THEN AfterRead(AfterSample(AfterRead(AfterSample(sampling, now), t), t), t)
                ELSE AfterRead(AfterSample(sampling, now), t)
           /\ IF ~continue
                THEN \* break before the clock is read
                     /\ variants' = <<>>
                     /\ UNCHANGED <<now, peak_memory_mb, total_processing_time,
                                    words_per_second, last_performance_update,
                                    system_info_updates, bloom_filter, generated_count,
                                    duplicate_count, variation_count, yielded, cb_log, pc>>
                ELSE /\ now' = t
                     /\ IF update
                          THEN /\ peak_memory_mb' = UpdatedPeak(peak_memory_mb, m1)
                               /\ total_processing_time' = UpdatedTotal(t)
                               /\ words_per_second' = UpdatedWps(t)
                               /\ last_performance_update' = t
                               /\ system_info_updates' = updates
                          ELSE UNCHANGED <<peak_memory_mb, total_processing_time,
                                           words_per_second, last_performance_update,
                                           system_info_updates>>
                     /\ IF limited
                          THEN /\ variants' = <<>>
                               /\ cb_log' = Logged(log1, Call("limited", word, generated_count,
                                                              duplicate_count))
                               /\ UNCHANGED <<bloom_filter, generated_count, duplicate_count,
                                              variation_count, yielded, pc>>
                          ELSE /\ variants' = Tail(variants)
                               /\ IF accept
                                    THEN /\ bloom_filter' = BloomAdd(bloom_filter, variant,
                                                                    EngineBloomSize,
                                                                    EngineHashCount)
                                         /\ generated_count' = generated_count + 1
                                         /\ variation_count' = variation_count + 1
                                         /\ cb_log' = Logged(log1, Call("word", variant,
                                                                        generated_count + 1,
                                                                        duplicate_count))
                                         /\ yielded' = Append(yielded, variant)
                                         /\ pc' = "yielded"
                                         /\ UNCHANGED duplicate_count
                                    ELSE /\ duplicate_count' = duplicate_count + 1
                                         /\ cb_log' = log1
                                         /\ UNCHANGED <<bloom_filter, generated_count,
                                                        variation_count, yielded, pc>>
  /\ UNCHANGED <<PSUTIL_AVAILABLE, hash_seed, engine, configVars, start_time, base_words,
                 callback, seen_words, seeds_left, word, run_no, yielded_before,
                 stats_final, bloomVars, writerVars, libraryVars, monitorVars>>

(***************************************************************************)
(* BloomFilter on its own                                                  *)
(***************************************************************************)

\* The filter is built for 1..MaxExpectedItems items.
MaxExpectedItems == 3

BloomItems ==
  { <<"a">>, <<"a", "t">>, <<"s", "o">>, <<"a", "t", "1">>, <<"A", "t">> }

\* BloomFilter.__init__(expected_items=n, false_positive_rate=0.01)
BloomNew(n) ==
  /\ bf_size = 0
  /\ bf_expected_items' = n
  /\ bf_size' = OptimalSize(n)
  /\ bf_hash_count' = OptimalHashCount(n, OptimalSize(n))
  /\ bf_bit_array' = EmptyBitArray
  /\ bf_added' = {}
  /\ bf_result' = <<>>
  /\ UNCHANGED <<processVars, engineVars, frameVars, historyVars, writerVars, libraryVars, monitorVars>>

\* BloomFilter.add(item)
BloomAddItem(item) ==
  /\ bf_size > 0
  /\ bf_bit_array' = BloomAdd(bf_bit_array, item, bf_size, bf_hash_count)
  /\ bf_added' = bf_added \cup {item}
  /\ UNCHANGED <<bf_size, bf_hash_count, bf_expected_items, bf_result>>
  /\ UNCHANGED <<processVars, engineVars, frameVars, historyVars, writerVars, libraryVars, monitorVars>>

\* BloomFilter.contains(item)
BloomTestItem(item) ==
  /\ bf_size > 0
  /\ bf_result' = <<item, BloomContains(bf_bit_array, item, bf_size, bf_hash_count)>>
  /\ UNCHANGED <<bf_size, bf_hash_count, bf_expected_items, bf_bit_array, bf_added>>
  /\ UNCHANGED <<processVars, engineVars, frameVars, historyVars, writerVars, libraryVars, monitorVars>>

(***************************************************************************)
(* core/stream_writer.py: StreamingFileWriter                              *)
(***************************************************************************)

\* buffer_size is 1..MaxBufferSize; add_word is called at most MaxWords times.
MaxBufferSize == 2
MaxWords == 3

\* add_word flushes when memory usage is above this (MB)
WriterFlushMemoryMb == 400

WriterWords == { <<"a">>, <<"s", "o">> }

Line(w) == w \o <<"\n">>

\* StreamingFileWriter.__init__
WriterNew(size) ==
  /\ w_state = "none"
  /\ w_state' = "new"
  /\ w_buffer_size' = size
  /\ w_buffer' = <<>>
  /\ w_word_count' = 0
  /\ w_file' = <<>>
  /\ w_file_open' = FALSE
  /\ w_added' = <<>>
  /\ w_raised' = "none"
  /\ UNCHANGED <<processVars, engineVars, frameVars, historyVars, bloomVars, libraryVars, monitorVars>>

\* StreamingFileWriter.__enter__
WriterEnter ==
  /\ w_state = "new"
  /\ w_state' = "open"
  /\ w_file_open' = TRUE
  /\ w_file' = <<>>
  /\ UNCHANGED <<w_buffer, w_buffer_size, w_word_count, w_added, w_raised>>
  /\ UNCHANGED <<processVars, engineVars, frameVars, historyVars, bloomVars, libraryVars, monitorVars>>

\* _flush_buffer when file_obj.writelines raises: some of the lines may
\* have been written, the buffer is not cleared.
PartlyWritten(file, buffer) == {file \o SubSeq(buffer, 1, k) : k \in 0..(Len(buffer) - 1)}

\* StreamingFileWriter.add_word.  ok: writelines does not raise.
WriterAddWord(w, ok) ==
  /\ w_state = "open"
  /\ Len(w_added) < MaxWords
  /\ w_added' = Append(w_added, w)
  /\ w_word_count' = w_word_count + 1
  /\ \E mem \in Samples :
       LET buffer == Append(w_buffer, Line(w))
           flush == Len(buffer) >= w_buffer_size
                    \/ (PSUTIL_AVAILABLE /\ mem > WriterFlushMemoryMb)
       IN  IF ~flush
             THEN /\ w_buffer' = buffer
                  /\ UNCHANGED <<w_file, w_state, w_raised>>
             ELSE IF ok
               THEN /\ w_file' = w_file \o buffer
                    /\ w_buffer' = <<>>
                    /\ UNCHANGED <<w_state, w_raised>>
               ELSE \* the exception leaves add_word and the body of the with block
                    /\ w_file' \in PartlyWritten(w_file, buffer)
                    /\ w_buffer' = buffer
                    /\ w_state' = "raising"
                    /\ w_raised' = "write"
  /\ UNCHANGED <<w_buffer_size, w_file_open>>
  /\ UNCHANGED <<processVars, engineVars, frameVars, historyVars, bloomVars, libraryVars, monitorVars>>

\* Something else in the body of the with block raises.
WriterBodyRaises ==
  /\ w_state = "open"
  /\ w_state' = "raising"
  /\ w_raised' = "body"
  /\ UNCHANGED <<w_buffer, w_buffer_size, w_word_count, w_file, w_file_open, w_added>>
  /\ UNCHANGED <<processVars, engineVars, frameVars, historyVars, bloomVars, libraryVars, monitorVars>>

\* __exit__ that closes the file without flushing the buffer
WriterExitWithoutFlush(ok) ==
  /\ w_state \in {"open", "raising"}
  /\ w_file_open' = FALSE
  /\ w_state' = IF w_state = "raising" THEN "failed" ELSE "closed"
  /\ UNCHANGED <<w_file, w_buffer, w_raised, w_buffer_size, w_word_count, w_added>>
  /\ UNCHANGED <<processVars, engineVars, frameVars, historyVars, bloomVars, libraryVars, monitorVars>>

\* StreamingFileWriter.__exit__, called when the with block is left, normally
\* or by an exception: _flush_buffer, then close.  ok: writelines does not raise.
WriterExit(ok) ==
  /\ w_state \in {"open", "raising"}
  /\ IF w_buffer = <<>> \/ ok
       THEN /\ w_file' = w_file \o w_buffer
            /\ w_buffer' = <<>>
            /\ w_file_open' = FALSE
            /\ w_state' = IF w_state = "raising" THEN "failed" ELSE "closed"
            /\ UNCHANGED w_raised
       ELSE \* writelines raises: __exit__ is left before close is reached
            /\ w_file' \in PartlyWritten(w_file, w_buffer)
            /\ w_state' = "failed"
            /\ w_raised' = "write"
            /\ UNCHANGED <<w_buffer, w_file_open>>
  /\ UNCHANGED <<w_buffer_size, w_word_count, w_added>>
  /\ UNCHANGED <<processVars, engineVars, frameVars, historyVars, bloomVars, libraryVars, monitorVars>>

(***************************************************************************)
(* Specifications                                                          *)
(***************************************************************************)

\* Before anything is constructed.
Init ==
  /\ PSUTIL_AVAILABLE \in BOOLEAN
  /\ now = 1
  /\ memory_mb = 0
  /\ hash_seed \in 0..MaxHashSeed
  /\ engine = "none"
  /\ mode = "basic"
  /\ first_name = <<>> /\ last_name = <<>> /\ middle_name = <<>>
  /\ min_length = 0 /\ max_length = 0
  /\ enable_leet = FALSE /\ enable_capitals = FALSE /\ append_numbers = FALSE
  /\ prepend_numbers = FALSE /\ special_chars = FALSE
  /\ generated_count = 0 /\ duplicate_count = 0 /\ start_time = 0
  /\ peak_memory_mb = 0 /\ total_processing_time = 0 /\ words_per_second = Zero
  /\ base_words = {}
  /\ bloom_filter = EmptyBitArray
  /\ current_word_variations = 0
  /\ pc = "none"
  /\ callback = FALSE
  /\ seen_words = {}
  /\ last_performance_update = 0
  /\ system_info_updates = 0
  /\ seeds_left = <<>>
  /\ word = <<>>
  /\ variants = <<>>
  /\ variation_count = 0
  /\ run_no = 0
  /\ yielded = <<>>
  /\ yielded_before = {}
  /\ cb_log = <<>>
  /\ resource_checks = "none"
  /\ stats_final = FALSE /\ examined = 0 /\ sampling = NoSampling
  /\ bf_size = 0 /\ bf_hash_count = 0 /\ bf_bit_array = EmptyBitArray
  /\ bf_expected_items = 0
  /\ bf_added = {} /\ bf_result = <<>>
  /\ w_state = "none"
  /\ w_buffer = <<>> /\ w_buffer_size = 0 /\ w_word_count = 0
  /\ w_file = <<>> /\ w_file_open = FALSE /\ w_added = <<>> /\ w_raised = "none"
  /\ lib_call = <<>> /\ lib_result = {}
  /\ mon_usage = 0 /\ mon_failed = FALSE /\ mon_result = <<>>
  /\ stats_out = <<>>

\* The names the engines are run on: " At" and "O" normalize to "at" and "o".
RawFirst == <<" ", "A", "t">>
RawLast == <<"O">>

\* Capitalization and leet only.
CaseAndLeet == Toggles(TRUE, TRUE, FALSE, FALSE, FALSE)

\* Special characters only.
SpecialOnly == Toggles(FALSE, FALSE, FALSE, FALSE, TRUE)

\* "at" / "o", lengths 2..3: the seeds are the three forms of "at" (the
\* later ones repeat variants of the earlier ones) and ao, ato and oat.
EngineConfigs ==
  { Config(m, RawFirst, RawLast, <<>>, 2, 3, tg) :
      m \in {"basic", "advanced"}, tg \in {AllOff, CaseAndLeet, SpecialOnly} }

\* The configurations an instance is run more than once on.
CaseOnly == Toggles(FALSE, TRUE, FALSE, FALSE, FALSE)

RerunConfigs ==
  { Config(m, RawFirst, RawLast, <<>>, 2, 3, tg) :
      m \in {"basic", "advanced"}, tg \in {AllOff, CaseOnly} }

\* The engines: construction, runs, and the consumer of the generator.
Next ==
  \/ \E c \in EngineConfigs : Construct(c)
  \/ \E cb \in BOOLEAN : StartRun(cb, 1)
  \/ BasicNextSeed
  \/ BasicStepVariant
  \/ AdvancedNextSeed
  \/ AdvancedStepVariant
  \/ Pull
  \/ Abandon

Spec == Init /\ [][Next]_vars

\* The engines, an instance being run up to MaxRuns times.
NextRerun ==
  \/ \E c \in RerunConfigs : Construct(c)
  \/ \E cb \in BOOLEAN : StartRun(cb, MaxRuns)
  \/ BasicNextSeed
  \/ BasicStepVariant
  \/ AdvancedNextSeed
  \/ AdvancedStepVariant
  \/ Pull
  \/ Abandon

SpecRerun == Init /\ [][NextRerun]_vars

\* get_statistics: the counts it reports, read from the instance.  It can be
\* called at any moment the consumer has control: before a run, between two
\* pulls, after a run.
Statistics ==
  [ base_combinations |-> Cardinality(base_words),
    total_generated |-> generated_count,
    duplicates_prevented |-> duplicate_count,
    performance_monitoring |-> PSUTIL_AVAILABLE ]

\* A get_statistics that would empty the seed set it has just counted.
GetStatisticsDrainingSeeds ==
  /\ engine = "ok"
  /\ stats_out' = Statistics
  /\ base_words' = {}
  /\ UNCHANGED <<processVars, engine, configVars, statVars, bloom_filter,
                 current_word_variations, frameVars, historyVars, bloomVars, writerVars,
                 libraryVars, mon_usage, mon_failed, mon_result>>

GetStatistics ==
  /\ engine = "ok"
  /\ stats_out' = Statistics
  /\ UNCHANGED <<processVars, engineVars, frameVars, historyVars, bloomVars, writerVars,
                 libraryVars, mon_usage, mon_failed, mon_result>>

\* The Bloom filter.
NextBloom ==
  \/ \E n \in (1..MaxExpectedItems) \cup {ExpectedItems} : BloomNew(n)
  \/ \E item \in BloomItems : BloomAddItem(item)
  \/ \E item \in BloomItems : BloomTestItem(item)

SpecBloom == Init /\ [][NextBloom]_vars

\* The streaming file writer.
NextWriter ==
  \/ \E size \in 1..MaxBufferSize : WriterNew(size)
  \/ WriterEnter
  \/ \E w \in WriterWords, ok \in BOOLEAN : WriterAddWord(w, ok)
  \/ WriterBodyRaises
  \/ \E ok \in BOOLEAN : WriterExit(ok)

SpecWriter == Init /\ [][NextWriter]_vars

\* Construction alone: names that are empty or blank, with and without a
\* middle name, in both modes.
Alice == <<"a", "l", "i", "c", "e">>
Smith == <<"s", "m", "i", "t", "h">>

ConstructFirsts == { <<>>, <<" ">>, <<"a">>, RawFirst, <<"A">> \o Tail(Alice) }
ConstructLasts == { <<>>, <<" ", " ">>, <<"o">>, RawLast, Smith \o <<" ">> }
ConstructMiddles == { <<>>, << <<>> >>, << <<" ">> >>, << <<"E">> >>, << <<"d", "e">> >> }
ConstructLengths == { <<3, 15>>, <<1, 2>>, <<2, 3>> }

ConstructInputs ==
  { Config(m, first, last, middle, len[1], len[2], AllOn) :
      m \in {"basic", "advanced"}, first \in ConstructFirsts, last \in ConstructLasts,
      middle \in ConstructMiddles, len \in ConstructLengths }

NextConstruct == \E c \in ConstructInputs : Construct(c)

SpecConstruct == Init /\ [][NextConstruct]_vars

\* The Basic engine under every setting of the five toggles, on john / doe
\* with lengths 3..12 and every toggle on, and on test / doe with leet only; psutil is not
\* installed, so no resource check stops a run, the consumer pulls until
\* the generator is exhausted, and the run is over within one tick of the
\* clock.
InitUnmonitored == Init /\ ~PSUTIL_AVAILABLE

John == <<"j", "o", "h", "n">>
Doe == <<"d", "o", "e">>
Test == <<"t", "e", "s", "t">>

\* Leet only.
LeetOnly == Toggles(TRUE, FALSE, FALSE, FALSE, FALSE)

ToggleConfigs ==
  { Config("basic", RawFirst, RawLast, <<>>, 2, 3, Toggles(l, c, a, p, s)) :
      l \in BOOLEAN, c \in BOOLEAN, a \in BOOLEAN, p \in BOOLEAN, s \in BOOLEAN }
  \cup { Config("basic", John, Doe, <<>>, 3, 12, AllOn),
         Config("basic", Test, Doe, <<>>, 3, 12, LeetOnly) }

NextToggles ==
  \/ \E c \in ToggleConfigs : Construct(c)
  \/ \E cb \in BOOLEAN : StartRun(cb, 1)
  \/ BasicNextSeed /\ now' = now
  \/ BasicStepVariant
  \/ Pull

SpecToggles == InitUnmonitored /\ [][NextToggles]_vars

\* Runs pulled until they are exhausted: both engines on alice / de / smith
\* with lengths 2..15 (every pattern of the seed builder passes the filter and
\* all are different) and no toggle, and the Exhaustive engine on a seed whose
\* variation set is larger than the per-seed limit.  The consumer keeps
\* pulling and the generator runs when it is pulled.
MiddleDe == << <<"d", "e">> >>

TerminationConfigs ==
  { Config(m, Alice, Smith, MiddleDe, 2, 15, AllOff) : m \in {"basic", "advanced"} }
  \cup { Config("advanced", RawFirst, RawLast, <<>>, 7, 8, AllOn),
          Config("basic", RawFirst, RawLast, <<>>, 2, 3, AllOn) }

NextTermination ==
  \/ \E c \in TerminationConfigs : Construct(c)
  \/ \E cb \in BOOLEAN : StartRun(cb, 1)
  \/ BasicNextSeed /\ now' = now
  \/ BasicStepVariant
  \/ AdvancedNextSeed /\ now' = now
  \/ AdvancedStepVariant /\ now' = now
  \/ Pull

SpecTermination == InitUnmonitored /\ [][NextTermination]_vars

\* Both engines run, abandoned, run again and asked for their statistics.
NextFrame ==
  \/ \E c \in RerunConfigs : Construct(c)
  \/ \E cb \in BOOLEAN : StartRun(cb, MaxRuns)
  \/ BasicNextSeed /\ now' = now
  \/ BasicStepVariant
  \/ AdvancedNextSeed /\ now' = now
  \/ AdvancedStepVariant /\ now' = now
  \/ Pull
  \/ Abandon
  \/ GetStatistics

SpecFrame == InitUnmonitored /\ [][NextFrame]_vars

(***************************************************************************)
(* The pattern generators called directly, as the library's users and its  *)
(* tests call them: one transform applied to one word.                     *)
(***************************************************************************)

MaxWordLen == 21

\* c repeated n times
Repeat(c, n) == [i \in 1..n |-> c]

LibraryWords == {Repeat(c, n) : c \in {"a", "O"}, n \in 0..MaxWordLen}

LibraryCall(class, method, w, result) ==
  /\ lib_call' = <<class, method, w>>
  /\ lib_result' = result
  /\ UNCHANGED <<processVars, engineVars, frameVars, historyVars, bloomVars, writerVars,
                 monitorVars>>

CallSmartNumberAppend ==
  \E w \in LibraryWords :
    LibraryCall("basic", "number_append", w, Range(SmartNumberAppend(w)))

CallSmartNumberPrepend ==
  \E w \in LibraryWords :
    LibraryCall("basic", "number_prepend", w, Range(SmartNumberPrepend(w)))

CallSmartSpecialChars ==
  \E w \in LibraryWords :
    LibraryCall("basic", "special_chars", w, Range(SmartSpecialChars(w)))

CallOptimizedNumberAppend ==
  \E w \in LibraryWords :
    LibraryCall("advanced", "number_append", w, OptimizedNumberAppend(w))

CallOptimizedNumberPrepend ==
  \E w \in LibraryWords :
    LibraryCall("advanced", "number_prepend", w, OptimizedNumberPrepend(w))

CallOptimizedSpecialChars ==
  \E w \in LibraryWords :
    LibraryCall("advanced", "special_chars", w, OptimizedSpecialChars(w))

NextPatterns ==
  \/ CallSmartNumberAppend
  \/ CallSmartNumberPrepend
  \/ CallSmartSpecialChars
  \/ CallOptimizedNumberAppend
  \/ CallOptimizedNumberPrepend
  \/ CallOptimizedSpecialChars

SpecPatterns == Init /\ [][NextPatterns]_vars

\* The first phase of the Exhaustive engine.  The name daeiost holds every
\* letter the leet table replaces next to one it does not, so its capitalized
\* form has the most leet variants a word can have; the engine is run on it
\* with capitals and leet alone and with every toggle on, and the two
\* transforms are called on their own on words that are not seeds.
Daeiost == <<"d", "a", "e", "i", "o", "s", "t">>

PhaseWords ==
  { <<>>, <<"D", "A", "e", "i", "o", "s", "t">>, <<"d", "A", "-", "e", "i", "o", "s", "t">>,
    <<"t", "e", "_", "S", "t">>, <<"O", " ", "a">> }

PhaseConfigs ==
  { Config("advanced", Daeiost, <<>>, <<>>, 7, 7, tg) : tg \in {CaseAndLeet, AllOn} }

CallOptimizedLeetTransform ==
  \E w \in PhaseWords :
    LibraryCall("advanced", "leet_transform", w, OptimizedLeetTransform(w))

CallOptimizedCapitalization ==
  \E w \in PhaseWords :
    LibraryCall("advanced", "capitalization", w, OptimizedCapitalization(w))

NextPhases ==
  \/ \E c \in PhaseConfigs : Construct(c)
  \/ \E cb \in BOOLEAN : StartRun(cb, 1)
  \/ AdvancedNextSeed /\ now' = now
  \/ AdvancedStepVariant /\ now' = now
  \/ Pull
  \/ CallOptimizedLeetTransform /\ pc = "done"
  \/ CallOptimizedCapitalization /\ pc = "done"

SpecPhases == InitUnmonitored /\ [][NextPhases]_vars

(***************************************************************************)
(* The resource checks called on an engine that is not running: the        *)
(* samples may fail (psutil raising inside get_memory_usage), and read     *)
(* anything below, between and above the two limits.                       *)
(***************************************************************************)

MonitorSamples == {100, 460, 520}

\* PerformanceMonitor.get_memory_usage: 0.0 without psutil and when the
\* sample raises, else what psutil reads.
GetMemoryUsage(raw, failed) ==
  IF ~PSUTIL_AVAILABLE THEN 0
  ELSE IF failed THEN 0
  ELSE raw

\* get_statistics()["performance_monitoring"]
PerformanceMonitoringFlag == PSUTIL_AVAILABLE

MonitorConfigs ==
  { Config("basic", RawFirst, RawLast, <<>>, 2, 3, AllOff),
    Config("advanced", RawFirst, RawLast, <<>>, 2, 3, AllOff) }

\* _update_performance_stats called before a run: start_time is None, so
\* only the peak memory is touched.
DirectUpdateStats ==
  /\ engine = "ok" /\ pc = "none"
  /\ \E raw \in MonitorSamples, failed \in BOOLEAN :
       LET usage == GetMemoryUsage(raw, failed)
       IN  /\ mon_usage' = usage
           /\ mon_failed' = (PSUTIL_AVAILABLE /\ failed)
           /\ peak_memory_mb' = UpdatedPeak(peak_memory_mb, usage)
  /\ UNCHANGED <<processVars, engine, configVars, generated_count, duplicate_count,
                 start_time, total_processing_time, words_per_second, base_words,
                 bloom_filter, current_word_variations, frameVars, historyVars,
                 bloomVars, writerVars, libraryVars, mon_result, stats_out>>

\* PerformanceMonitor.should_continue() and engine._should_continue_generation(),
\* both on the same sample.
DirectCheck ==
  /\ engine = "ok" /\ pc = "none"
  /\ \E raw \in MonitorSamples, failed \in BOOLEAN :
       LET usage == GetMemoryUsage(raw, failed)
       IN  /\ mon_usage' = usage
           /\ mon_failed' = (PSUTIL_AVAILABLE /\ failed)
           /\ mon_result' = <<MonitorShouldContinue(usage),
                              ShouldContinueGeneration(usage, peak_memory_mb)>>
  /\ UNCHANGED <<processVars, engineVars, frameVars, historyVars, bloomVars, writerVars,
                 libraryVars, stats_out>>

NextMonitor ==
  \/ \E c \in MonitorConfigs : Construct(c)
  \/ DirectUpdateStats
  \/ DirectCheck

SpecMonitor == Init /\ [][NextMonitor]_vars

(***************************************************************************)
(* The Advanced engine with every toggle on, where the variation set of a  *)
(* seed has more than a thousand strings, and with numbers appended and    *)
(* special characters only, where it has some 560, and with capitals too,  *)
(* where phase 3 finds some 80 strings to pick its 50 from.  The bounds    *)
(* 7..8 leave                                                              *)
(* one seed, "atadmin".  No psutil, the clock stands still: the run is cut *)
(* by nothing but the cap on variations.                                   *)
(***************************************************************************)

CapConfigs ==
  { Config("advanced", RawFirst, RawLast, <<>>, 7, 8, AllOn),
    Config("advanced", RawFirst, RawLast, <<>>, 7, 8, Toggles(FALSE, FALSE, TRUE, FALSE, TRUE)),
    Config("advanced", RawFirst, RawLast, <<>>, 7, 8, Toggles(FALSE, TRUE, TRUE, FALSE, TRUE)),
    Config("advanced", RawFirst, RawLast, <<>>, 2, 3, AllOff) }

NextCap ==
  \/ \E c \in CapConfigs : Construct(c)
  \/ \E cb \in BOOLEAN : StartRun(cb, 1)
  \/ AdvancedNextSeed /\ now' = now
  \/ AdvancedStepVariant /\ now' = now
  \/ Pull

SpecCap == InitUnmonitored /\ [][NextCap]_vars

(***************************************************************************)
(* Properties of the engines, the Bloom filter and the writer              *)
(***************************************************************************)

NoRepeats(seq) == Cardinality(Range(seq)) = Len(seq)

\* The variations of a seed in the order the engine's loop receives them
Stream(w) ==
  IF mode = "basic" THEN EfficientVariations(w) ELSE ListOf(OptimizedVariationSet(w))

\* The loop over the variations of `word` is under way and no resource check
\* has cut it short.
InVariantLoop ==
  /\ pc = "variant_loop"
  /\ resource_checks \in {"none", "ok"}
  /\ current_word_variations < MaxVariationsPerWord

\* The variant the loop examined last
LastExamined ==
  LET all == Stream(word) IN all[Len(all) - Len(variants)]

HasExamined == InVariantLoop /\ Len(variants) < Len(Stream(word))

TogglesOff ==
  ~enable_leet /\ ~enable_capitals /\ ~append_numbers /\ ~prepend_numbers /\ ~special_chars

\* The run reached the end of the seeds and no resource check said stop.
RanToCompletion == pc = "done" /\ resource_checks \in {"none", "ok"}

\* C1: in any prefix of a run of the Basic engine no string is yielded twice;
\* a variant equal to an earlier-yielded string is suppressed.
C1_BasicNeverRepeats == mode = "basic" => NoRepeats(yielded)

\* A variant equal to a string yielded earlier in the run has just been
\* examined and was not yielded.
C1_Witness ==
  /\ mode = "basic"
  /\ HasExamined
  /\ yielded # <<>>
  /\ duplicate_count >= 1
  /\ LastExamined \in Range(yielded)
  /\ LastExamined # yielded[Len(yielded)]

\* C2: every candidate yielded by either engine has a length between
\* min_length and max_length.
C2_LengthBounds ==
  \A i \in 1..Len(yielded) : min_length <= Len(yielded[i]) /\ Len(yielded[i]) <= max_length

\* The Advanced engine has yielded a string of the greatest length allowed and
\* has just examined and dropped one that is too long.
C2_Witness ==
  /\ mode = "advanced"
  /\ HasExamined
  /\ yielded # <<>>
  /\ Len(yielded[Len(yielded)]) = max_length
  /\ Len(LastExamined) > max_length

\* C3: within one run of the Advanced engine a string already yielded is not
\* yielded again, and a yielded string has been added to the Bloom filter:
\* the filter contains the string yielded last, and at the end of the run
\* every string the run yielded.
C3_AdvancedNeverReyields ==
  mode = "advanced" =>
    /\ NoRepeats(yielded)
    /\ yielded # <<>> =>
         BloomContains(bloom_filter, yielded[Len(yielded)], EngineBloomSize, EngineHashCount)
    /\ pc = "done" =>
         \A i \in 1..Len(yielded) :
           BloomContains(bloom_filter, yielded[i], EngineBloomSize, EngineHashCount)

\* The Advanced engine has just examined a variant it yielded earlier in the
\* run, and counted it as a duplicate.
C3_Witness ==
  /\ mode = "advanced"
  /\ HasExamined
  /\ yielded # <<>>
  /\ duplicate_count >= 1
  /\ LastExamined \in Range(yielded)
  /\ LastExamined # yielded[Len(yielded)]

\* C4: an engine whose first or last name is empty after normalization is
\* not constructed: __init__ raises, with or without a middle name.
C4_EmptyNameRejected ==
  (engine # "none" /\ (first_name = <<>> \/ last_name = <<>>)) => engine = "error"

\* C5: contains is true of every item added to the filter, and a contains
\* that returned true found all hash_count bit positions of its item set.
C5_NoFalseNegatives ==
  bf_size > 0 =>
    /\ \A x \in bf_added : BloomContains(bf_bit_array, x, bf_size, bf_hash_count)
    /\ (bf_result # <<>> /\ bf_result[2]) =>
         \A j \in 1..bf_hash_count :
           TestBit(bf_bit_array, Hashes(bf_result[1], bf_size, bf_hash_count)[j])

\* contains has returned true for one of several items added
C5_Witness ==
  /\ bf_size > 0
  /\ Cardinality(bf_added) >= 2
  /\ bf_result # <<>>
  /\ bf_result[2]
  /\ bf_result[1] \in bf_added

C7_HaltIsReported ==
  (pc = "done" /\ resource_checks = "over") =>
    /\ yielded = <<>> \/ \E w \in base_words : Range(yielded) \subseteq Range(Stream(w))
    /\ callback => \E i \in 1..Len(cb_log) : cb_log[i].kind = "stopped"

EndedRunStep ==
  pc \in {"done", "closed"} =>
    \/ /\ pc' = "seed_loop"
       /\ run_no' = run_no + 1
       /\ generated_count' = 0
       /\ duplicate_count' = 0
       /\ yielded' = <<>>
    \/ /\ pc' = pc
       /\ yielded' = yielded
       /\ generated_count' = generated_count

C9_StatisticsFinalized ==
  (pc \in {"done", "closed"} /\ generated_count >= 1 /\ now > start_time) =>
    stats_final /\ words_per_second[1] > 0

\* C10: when the with block of the writer has been left, on any path, the
\* file has been closed.
C10_ClosedOnEveryExit == w_state \in {"closed", "failed"} => ~w_file_open

\* C11: when the with block of the writer has been left and no write failed,
\* the file holds one newline-terminated line per add_word call, in call
\* order, and nothing is left in the buffer.
C11_OneLinePerWord ==
  (w_state \in {"closed", "failed"} /\ w_raised # "write") =>
    /\ Len(w_file) = Len(w_added)
    /\ \A i \in 1..Len(w_added) : w_file[i] = w_added[i] \o <<"\n">>
    /\ w_buffer = <<>>
    /\ w_word_count = Len(w_added)

\* Three words went through a buffer of two: one flush by add_word, one by
\* __exit__.
C11_Witness ==
  /\ w_state = "closed"
  /\ w_raised = "none"
  /\ w_buffer_size = 2
  /\ Len(w_added) = 3
  /\ Len(w_file) = 3

\* C12: a Basic run to completion with no resource halt has yielded every
\* seed, at least as many strings as there are seeds, no string twice, and
\* its duplicate_count is not negative, whatever the toggles.
C12_EverySeedYielded ==
  (mode = "basic" /\ RanToCompletion) =>
    /\ base_words \subseteq Range(yielded)
    /\ Len(yielded) >= Cardinality(base_words)
    /\ NoRepeats(yielded)
    /\ duplicate_count >= 0

\* john / doe, lengths 3..12, every toggle on: the run is complete, yielded
\* more strings than there are seeds and dropped some variants.
C12_Witness ==
  /\ mode = "basic"
  /\ RanToCompletion
  /\ first_name = John
  /\ last_name = Doe
  /\ enable_leet /\ enable_capitals /\ append_numbers /\ prepend_numbers /\ special_chars
  /\ Len(yielded) > Cardinality(base_words)
  /\ duplicate_count > 0

\* The digits the leet substitutions put in
LeetDigits == {"4", "3", "1", "0", "5", "7"}

HasLeetDigit(v) == \E i \in 1..Len(v) : v[i] \in LeetDigits

\* The word has a letter smart_leet_transform substitutes.
Substitutable(w) == \E c \in {"a", "e", "i", "o", "s"} : Contains(StrLower(w), c)

LeetAlone ==
  enable_leet /\ ~enable_capitals /\ ~append_numbers /\ ~prepend_numbers /\ ~special_chars

\* C13: with only the leet toggle on, a complete Basic run has yielded, for
\* every seed with a substitutable letter, a leet variant of that seed that
\* holds one of the digits 4, 3, 1, 0, 5, 7.
C13_LeetVariantHasDigit ==
  (mode = "basic" /\ RanToCompletion /\ LeetAlone) =>
    \A w \in base_words :
      Substitutable(w) =>
        \E i \in 1..Len(yielded) :
          /\ yielded[i] # w
          /\ yielded[i] \in Range(SmartLeetTransform(w))
          /\ HasLeetDigit(yielded[i])

\* The run on test / doe with leet only is complete and yielded "t3st".
C13_Witness ==
  /\ mode = "basic"
  /\ RanToCompletion
  /\ LeetAlone
  /\ first_name = Test
  /\ Test \in base_words
  /\ <<"t", "3", "s", "t">> \in Range(yielded)

\* What the seed set is to hold before the length filter, from the three
\* normalized names of the instance.
ExpectedSeeds ==
  LET f == first_name
      l == last_name
      present == middle_name # <<>> /\ middle_name[1] # <<>>
      parts == {n \in {f, l} : n # <<>>} \cup (IF present THEN {middle_name[1]} ELSE {})
  IN  UNION { {n, StrUpper(n), StrCapitalize(n)} : n \in parts }
      \cup (IF f # <<>> /\ l # <<>>
              THEN { f \o l, l \o f, f \o <<"_">> \o l, f \o <<".">> \o l, f \o <<"-">> \o l,
                     <<f[1]>> \o l, f \o <<l[1]>>, <<f[1]>> \o <<l[1]>>,
                     f \o <<"1", "2", "3">>, l \o <<"1", "2", "3">>,
                     <<"a", "d", "m", "i", "n">> \o l, f \o <<"a", "d", "m", "i", "n">> }
              ELSE {})
      \cup (IF present
              THEN LET m == middle_name[1]
                   IN  { f \o <<m[1]>> \o l, <<f[1]>> \o <<m[1]>> \o <<l[1]>>, m \o l, f \o m }
              ELSE {})

\* C14: the seed set of a constructed engine is the union of the name forms,
\* the 12 first/last patterns and the 4 middle-name combinations, filtered
\* by length; for alice / smith with the default bounds it holds alice,
\* smith and alicesmith.
C14_SeedSetIsFilteredUnion ==
  engine = "ok" =>
    /\ base_words = {w \in ExpectedSeeds : min_length <= Len(w) /\ Len(w) <= max_length}
    /\ (first_name = Alice /\ last_name = Smith /\ min_length = 3 /\ max_length = 15) =>
         {Alice, Smith, Alice \o Smith} \subseteq base_words

\* alice / smith with a middle name and the default bounds has been
\* constructed; the reversed pattern and a middle-name combination are seeds.
C14_Witness ==
  /\ engine = "ok"
  /\ first_name = Alice
  /\ last_name = Smith
  /\ middle_name = << <<"d", "e">> >>
  /\ min_length = 3
  /\ max_length = 15
  /\ Smith \o Alice \in base_words
  /\ Alice \o <<"d">> \o Smith \in base_words
  /\ <<"a", "d", "s">> \in base_words

\* C15: every string the number-append, number-prepend and special-character
\* transforms of either pattern generator produce, for any input word, is at
\* most 20 characters long.
C15_TransformsCappedAtTwenty ==
  \A v \in lib_result : Len(v) <= BasicMaxLength /\ Len(v) <= AdvancedMaxLength

\* C16: when psutil is unavailable or a sample fails, the resource checks
\* degrade to "continue": should_continue and _should_continue_generation
\* both return true.
C16_DegradedChecksContinue ==
  (mon_result # <<>> /\ (~PSUTIL_AVAILABLE \/ mon_failed)) => mon_result = <<TRUE, TRUE>>

\* ceil(-(n * ln p) / (ln 2)^2) for p = 0.01: the quotient is never an
\* integer for n >= 1, so its ceiling is one above its integer part.
CeilOfSizeFormula(n) == OptimalSize(n) + 1

\* round((m / n) * ln 2): the integer part of (m / n) * ln 2 + 1/2
RoundOfCountFormula(n, m) ==
  LET q == m \div n
      r == m % n
      d == r * (Ln2Millionths \div 1000)
      x == 1000 * (d \div n) + (((d % n) * 1000 + r * (Ln2Millionths % 1000)) \div n)
  IN  (q * Ln2Millionths + x + 500000) \div 1000000

\* C17: a filter built for n expected items has m = ceil(-n ln p / (ln 2)^2)
\* bits and k = max(1, round((m / n) ln 2)) hash functions, for the engine's
\* n = 1000000 as for any other n.
C17_SizeCeilCountRound ==
  bf_size > 0 =>
    /\ bf_size = CeilOfSizeFormula(bf_expected_items)
    /\ bf_hash_count = Max(1, RoundOfCountFormula(bf_expected_items,
                                                  CeilOfSizeFormula(bf_expected_items)))

\* The counters of a Basic run agree with what the consumer has seen.
CountsAgree ==
  (mode = "basic" /\ run_no > 0) =>
    /\ generated_count = Len(yielded)
    /\ generated_count = Cardinality(seen_words)
    /\ seen_words = Range(yielded)
    /\ generated_count + duplicate_count = examined

\* What the loop body does with the variant v it examines: accepted
\* (recorded, counted, yielded) or rejected (counted as a duplicate), a
\* variant outside [min_length, max_length] among the latter.
ExaminedStep ==
  (mode = "basic" /\ examined' = examined + 1) =>
    LET v == Head(variants)
        fresh == v \notin seen_words
        fits == min_length <= Len(v) /\ Len(v) <= max_length
    IN  IF fresh /\ fits
          THEN /\ seen_words' = seen_words \cup {v}
               /\ generated_count' = generated_count + 1
               /\ yielded' = Append(yielded, v)
               /\ duplicate_count' = duplicate_count
          ELSE /\ duplicate_count' = duplicate_count + 1
               /\ UNCHANGED <<seen_words, generated_count, yielded>>

\* C18: in a run of the Basic engine every variant examined is accepted
\* (recorded in the seen set, counted in generated_count, yielded) or
\* rejected (counted in duplicate_count), never both and never neither:
\* between any two steps of the loop generated_count is the number of
\* strings yielded and the size of the seen set, generated_count +
\* duplicate_count is the number of variants examined, and a variant
\* rejected only for its length is counted in duplicate_count.
C18_AcceptedOrCounted == []CountsAgree /\ [][ExaminedStep]_vars

\* The loop has just rejected a new string for its length alone, after
\* yielding others.
C18_Witness ==
  /\ mode = "basic"
  /\ HasExamined
  /\ pc = "variant_loop"
  /\ LastExamined \notin seen_words
  /\ Len(LastExamined) > max_length
  /\ duplicate_count > 0
  /\ generated_count > 0

\* The seeds whose variations the run has begun
SeedsBegun == Cardinality(base_words) - Len(seeds_left)

\* C19: in the Advanced engine the variation stream of a seed produces at
\* most 500 variants and at most 500 candidates are accepted and yielded for
\* a seed, whatever the toggles: the stream's counter and the loop's counter
\* never pass 500, a stream that stopped has handed out at most 500 members
\* of the variation set, and a run has yielded at most 500 strings per seed
\* begun.
C19_FiveHundredPerSeed ==
  (mode = "advanced" /\ run_no > 0) =>
    /\ current_word_variations <= MaxVariationsPerWord
    /\ variation_count <= MaxVariationsPerWord
    /\ variation_count <= current_word_variations
    /\ Len(yielded) <= MaxVariationsPerWord * SeedsBegun
    /\ (pc = "variant_loop" /\ StreamEnded) =>
         Cardinality(OptimizedVariationSet(word)) - Len(variants) <= MaxVariationsPerWord

\* The stream of a seed has been stopped at 500 with variations left over,
\* some of the 500 accepted.
C19_Witness ==
  /\ mode = "advanced"
  /\ pc = "variant_loop"
  /\ current_word_variations = MaxVariationsPerWord
  /\ variants # <<>>
  /\ variation_count > 1
  /\ Len(yielded) = variation_count

\* The calls of the callback that passed a candidate, in order
CandidateCalls == SelectSeq(cb_log, LAMBDA e : e.kind = "word")

\* C20: with a callback supplied, every accepted candidate is passed to the
\* callback exactly once, when it is accepted, with generated_count already
\* counting it and the duplicate_count of that moment; over the candidate
\* calls generated_count goes up by exactly 1 each time, and the calls are in
\* the order of the yields.  Without a callback nothing is called.
C20_OneCallPerCandidate ==
  run_no > 0 =>
    /\ ~callback => cb_log = <<>>
    /\ callback =>
         /\ pc \in {"done", "closed"} =>
              /\ Len(CandidateCalls) = Len(yielded)
              /\ \A i \in 1..Len(yielded) :
                   /\ CandidateCalls[i].text = yielded[i]
                   /\ CandidateCalls[i].generated = i
                   /\ i > 1 =>
                        CandidateCalls[i].duplicates >= CandidateCalls[i - 1].duplicates
         /\ Cardinality({i \in DOMAIN cb_log : cb_log[i].kind = "word"}) = Len(yielded)
         /\ pc = "yielded" =>
              cb_log[Len(cb_log)] =
                [kind |-> "word", text |-> yielded[Len(yielded)],
                 generated |-> generated_count, duplicates |-> duplicate_count]

\* A run with a callback is suspended at the yield of its third candidate
\* or a later one, after rejecting a variant.
C20_Witness ==
  /\ callback
  /\ pc = "yielded"
  /\ Len(yielded) >= 3
  /\ duplicate_count > 0
  /\ cb_log[Len(cb_log)].text = yielded[Len(yielded)]

\* C21: a run samples memory only on the time-based cadence, never once per
\* candidate: between two consecutive memory samples of a run the sampling
\* interval (0.5 s Basic, 0.3 s Advanced) has elapsed.  Stated of the runs
\* that are in the loop over the candidates, where the latest two samples
\* include one taken for a candidate.
C21_SamplesOnCadenceOnly == pc \in {"variant_loop", "yielded"} => ~sampling[3]

\* The strings phase 1 can collect for the seed w, and the number variations
\* of a string c, under the toggles of the engine
CoreVariants(w) ==
  {w}
  \cup (IF enable_capitals THEN OptimizedCapitalization(w) ELSE {})
  \cup (IF enable_leet THEN OptimizedLeetTransform(w) ELSE {})

NumberVariants(c) ==
  (IF append_numbers THEN OptimizedNumberAppend(c) ELSE {})
  \cup (IF prepend_numbers THEN OptimizedNumberPrepend(c) ELSE {})

\* The Advanced engine has built the variation set of `word` and handed out
\* none of it yet: variants lists the whole set.
SeedJustBuilt ==
  mode = "advanced" /\ pc = "variant_loop" /\ current_word_variations = 0 /\ variants # <<>>

\* C22: in the variation set the Advanced engine builds for a seed, the
\* number transforms were applied to at most 50 phase-1 variants and the
\* special-character transforms to at most 50 of the variants accumulated
\* after phase 2, and every string of the set is the seed, a phase-1
\* variant, a number variant of one of those phase-1 variants or a
\* special-character variant of one of those accumulated variants.
C22_FiftySourcesPerPhase ==
  SeedJustBuilt =>
    LET built == Range(variants)
        one == CoreVariants(word)
        numbered == {c \in one : NumberVariants(c) # {} /\ NumberVariants(c) \subseteq built}
        accumulated == one \cup UNION {NumberVariants(c) : c \in numbered}
        decorated == {c \in accumulated :
                        special_chars /\ OptimizedSpecialChars(c) \subseteq built}
    IN  /\ word \in built
        /\ Cardinality(numbered) <= 50
        /\ Cardinality(decorated) <= 50
        /\ built \subseteq accumulated \cup UNION {OptimizedSpecialChars(c) : c \in decorated}

\* Phase 3 had more than 50 strings to choose from and decorated 50 of them.
C22_Witness ==
  /\ SeedJustBuilt
  /\ special_chars
  /\ LET one == CoreVariants(word)
          accumulated == one \cup UNION {NumberVariants(c) : c \in one}
      IN  /\ Cardinality(accumulated) > 50
          /\ Cardinality({c \in accumulated :
                           OptimizedSpecialChars(c) \subseteq Range(variants)}) = 50

\* C23: the seed set is fixed at construction: no step of a run (starting
\* it, building a seed's variants, examining a variant, yielding, abandoning)
\* and no call of get_statistics changes base_words, in either engine, and it
\* is at every moment the set the constructor computed from the configuration.
SeedSetAsConstructed ==
  engine = "ok" =>
    base_words = SmartNameCombinations(first_name, last_name, middle_name,
                                       min_length, max_length)

C23_SeedSetFixed ==
  /\ []SeedSetAsConstructed
  /\ [][engine = "ok" => base_words' = base_words]_vars

\* a second run has consumed every seed and the statistics were read after it
C23_Witness ==
  /\ run_no = MaxRuns /\ pc = "done" /\ base_words # {}
  /\ stats_out # <<>> /\ stats_out.total_generated = generated_count
  /\ generated_count > 0 /\ mode = "advanced"

\* C24: the Bloom filter is add-only.  No call changes size or hash_count;
\* no call clears a bit that is set; contains leaves the bit array as it is;
\* an item contains() accepts is still accepted after any further call; and
\* adding an item that was added before leaves the bit array unchanged.
BitsKept(old, new) ==
  \A b \in DOMAIN old :
    /\ b \in DOMAIN new
    /\ \A i \in 0..7 : BitAnd(old[b], i) => BitAnd(new[b], i)

BloomStepAddOnly ==
  bf_size > 0 =>
    /\ bf_size' = bf_size /\ bf_hash_count' = bf_hash_count
    /\ BitsKept(bf_bit_array, bf_bit_array')
    /\ \A item \in BloomItems :
         /\ BloomContains(bf_bit_array, item, bf_size, bf_hash_count)
              => BloomContains(bf_bit_array', item, bf_size', bf_hash_count')
         /\ BloomTestItem(item) => bf_bit_array' = bf_bit_array
         /\ (item \in bf_added /\ BloomAddItem(item)) => bf_bit_array' = bf_bit_array

C24_BloomAddOnly == [][BloomStepAddOnly]_vars

\* several items added, sharing bytes of the array, and one of them tested
\* afterwards
C24_Witness ==
  /\ Cardinality(bf_added) >= 3
  /\ bf_result # <<>> /\ bf_result[1] \in bf_added /\ bf_result[2]
  /\ \E b \in DOMAIN bf_bit_array :
       Cardinality({ i \in 0..7 : BitAnd(bf_bit_array[b], i) }) >= 2
  /\ \A item \in bf_added :
       BloomAdd(bf_bit_array, item, bf_size, bf_hash_count) = bf_bit_array

\* C25: two Compact engines built from equal configurations and run to
\* completion without a resource halt yield the same set of candidates and end
\* with the same generated_count and duplicate_count, whatever order the seed
\* set is iterated in.  Stated as: the outcome of a completed run is the value
\* of an expression over the configuration and the seed set in which the
\* iteration order does not occur.
CompactCandidates ==
  { v \in UNION { Range(EfficientVariations(w)) : w \in base_words } :
      min_length <= Len(v) /\ Len(v) <= max_length }

RECURSIVE CompactExamined(_)
CompactExamined(seeds) ==
  IF seeds = {} THEN 0
  ELSE LET w == CHOOSE s \in seeds : TRUE
       IN  Len(EfficientVariations(w)) + CompactExamined(seeds \ {w})

CompletedUnhalted ==
  mode = "basic" /\ pc = "done" /\ resource_checks \in {"none", "ok"}

C25_CompactRunsAgree ==
  CompletedUnhalted =>
    /\ Range(yielded) = CompactCandidates
    /\ generated_count = Cardinality(CompactCandidates)
    /\ duplicate_count = CompactExamined(base_words) - Cardinality(CompactCandidates)

\* a completed run whose seeds were visited in another order than under the
\* other hash seed, with candidates that several seeds produce
C25_Witness ==
  /\ CompletedUnhalted /\ hash_seed = 1
  /\ SortedByKey({<<Digest(w, 1), w>> : w \in base_words}, 0, DigestModulus)
       # SortedByKey({<<Digest(w, 2), w>> : w \in base_words}, 0, DigestModulus)
  /\ duplicate_count > 0 /\ generated_count > Cardinality(base_words)

\* C26: with monitoring available the resource halt is absorbing: the peak
\* memory never decreases and no run resets it, and once a sample has pushed
\* it above 450 the instance yields no further candidate, in this run or in a
\* later one: no candidate is handed to the consumer while the peak is above
\* the ceiling.
PeakNeverDecreases == [][engine = "ok" => peak_memory_mb' >= peak_memory_mb]_vars

C26_HaltIsAbsorbing ==
  (PSUTIL_AVAILABLE /\ pc = "yielded") => peak_memory_mb <= PeakMemoryCeiling

\* the same of the Compact engine alone
CompactHaltIsAbsorbing ==
  (PSUTIL_AVAILABLE /\ pc = "yielded" /\ mode = "basic") => peak_memory_mb <= PeakMemoryCeiling

\* C27: the Exhaustive engine's Bloom filter belongs to the instance and no
\* run resets it, while every run starts with generated_count and
\* duplicate_count at zero: a later run yields no string an earlier run of the
\* instance yielded, counts each such string it examines as a duplicate, and
\* a later run that completes unhalted has counted every one of them.
NoEarlierStringYielded ==
  mode = "advanced" =>
    /\ Range(yielded) \cap yielded_before = {}
    /\ \A v \in yielded_before : BloomContains(bloom_filter, v, EngineBloomSize, EngineHashCount)
    /\ (pc = "done" /\ resource_checks \in {"none", "ok"} /\ run_no >= 2)
         => duplicate_count >= Cardinality(yielded_before)

EarlierStringCounted ==
  (mode = "advanced" /\ engine = "ok") =>
    /\ (run_no' = run_no + 1) => (generated_count' = 0 /\ duplicate_count' = 0
                                   /\ bloom_filter' = bloom_filter)
    /\ (examined' = examined + 1 /\ Head(variants) \in yielded_before)
         => (duplicate_count' = duplicate_count + 1 /\ yielded' = yielded)

C27_LaterRunsYieldNothingOld == []NoEarlierStringYielded /\ [][EarlierStringCounted]_vars

\* a second Exhaustive run has completed after a first that yielded: nothing
\* was yielded again and every earlier string was counted
C27_Witness ==
  /\ mode = "advanced" /\ run_no = 2 /\ pc = "done"
  /\ Cardinality(yielded_before) >= 3
  /\ duplicate_count >= Cardinality(yielded_before)
  /\ generated_count < Cardinality(yielded_before)

\* C28: every run pulled until exhaustion terminates after a bounded number
\* of pulls.  The seed set has at most 25 members (9 single-name forms, 12
\* first/last patterns, 4 middle-name patterns); a seed contributes finitely
\* many variants, in the Exhaustive engine at most 500 examined and yielded;
\* so a run yields at most as many candidates as its seeds have variants, the
\* Exhaustive engine at most 25 * 500; and a run cannot go on for ever: every
\* step of a run lowers, in lexicographic order, the triple of the seeds
\* still to visit, the variants of the current seed still to examine and the
\* rank of the place the generator is at.
\* three names in three forms, twelve main_combos, four limited_middle_combos
MaxSeeds == 3 * 3 + 12 + 4

PcRank ==
  CASE pc = "seed_loop" -> 3
    [] pc = "yielded" -> 2
    [] pc = "variant_loop" -> 1
    [] OTHER -> 0

RunStepDescends ==
  pc \in {"seed_loop", "variant_loop", "yielded"} =>
    \/ Len(seeds_left') < Len(seeds_left)
    \/ /\ seeds_left' = seeds_left
       /\ Len(variants') < Len(variants)
    \/ /\ seeds_left' = seeds_left
       /\ Len(variants') = Len(variants)
       /\ PcRank' < PcRank

RunIsBounded ==
  engine = "ok" =>
    /\ Cardinality(base_words) <= MaxSeeds
    /\ SeedsBegun <= MaxSeeds
    /\ Len(yielded) <= examined
    /\ mode = "basic" => examined <= CompactExamined(base_words)
    /\ mode = "advanced" =>
         /\ examined <= MaxVariationsPerWord * SeedsBegun
         /\ Len(yielded) <= MaxSeeds * MaxVariationsPerWord

C28_RunsTerminate == []RunIsBounded /\ [][RunStepDescends]_vars

\* a run over a seed set of 25 members has ended, every seed yielded
C28_Witness ==
  /\ pc = "done"
  /\ Cardinality(base_words) = MaxSeeds
  /\ Len(yielded) = MaxSeeds
  /\ mode = "advanced"

\* C29: in the Exhaustive engine the callback is never called with the
\* "Limited variations for: <word>" message: the variation stream of a seed
\* stops after 500 variants, so whenever the loop receives a variant fewer
\* than 500 have been produced before it and fewer than 500 accepted.
C29_LimitedNeverReported ==
  mode = "advanced" =>
    /\ \A i \in 1..Len(cb_log) : cb_log[i].kind # "limited"
    /\ (pc = "variant_loop" /\ ~StreamEnded) =>
         /\ current_word_variations < MaxVariationsPerWord
         /\ variation_count <= current_word_variations

\* with a callback listening, the stream of a seed has stopped at 500 with
\* variations left over
C29_Witness ==
  /\ mode = "advanced" /\ callback
  /\ pc = "variant_loop"
  /\ current_word_variations = MaxVariationsPerWord
  /\ variants # <<>>
  /\ Len(cb_log) >= 1
  /\ \A i \in 1..Len(cb_log) : cb_log[i].kind = "word"

\* C30: for every word optimized_leet_transform returns at most 19 strings,
\* and the seed, its capitalization variants and its leet variants together
\* are at most 24, so in the Exhaustive engine the cap of 30 on the leet
\* variants and the cap of 50 on the sources of phase 2 discard nothing:
\* phase 1 holds every leet variant and every phase-1 variant gets its
\* number variants.  (The caps that can cut are the 50 of phase 3 and the 500
\* per seed.)
LeetLimit == 1 + 2 * Len(AdvSubstitutions)
PhaseOneLimit == 1 + 4 + LeetLimit

C30_EarlyCapsNeverCut ==
  /\ (lib_call # <<>> /\ lib_call[2] = "leet_transform") =>
       /\ Cardinality(lib_result) <= LeetLimit
       /\ lib_result = Range(FirstN(ListOf(lib_result), 30))
  /\ (lib_call # <<>> /\ lib_call[2] = "capitalization") =>
       /\ Cardinality(lib_result) <= 4
       /\ Cardinality({lib_call[3]} \cup lib_result \cup OptimizedLeetTransform(lib_call[3]))
            <= PhaseOneLimit
  /\ SeedJustBuilt =>
       /\ Cardinality(OptimizedLeetTransform(word)) <= LeetLimit
       /\ Cardinality(CoreVariants(word)) <= PhaseOneLimit
       /\ PhaseOne(word) = CoreVariants(word)
       /\ PhaseTwo(PhaseOne(word)) = UNION {NumberVariants(c) : c \in CoreVariants(word)}
       /\ \A c \in CoreVariants(word) : NumberVariants(c) \subseteq Range(variants)

\* the set built for a seed with 19 leet variants, every toggle on: phase 3
\* had more than 50 strings to take its 50 from
C30_Witness ==
  /\ SeedJustBuilt
  /\ enable_leet /\ enable_capitals /\ append_numbers /\ special_chars
  /\ Cardinality(OptimizedLeetTransform(word)) = LeetLimit
  /\ Cardinality(CoreVariants(word)) > LeetLimit
  /\ Cardinality(CoreVariants(word) \cup PhaseTwo(CoreVariants(word))) > 50

=============================================================================
